---- MODULE Spec2Model ----
(***************************************************************************)
(* Model of the DocumentConverter component (src/unnamed/part_000): the    *)
(* ordering store, the asynchronous ingestion handleFiles, and the         *)
(* conversion orchestrator generateDocument with its encoders.             *)
(*                                                                         *)
(* React state hooks are the variables.  A handler reads the values its    *)
(* closure captured at the last render ("shown") and writes the state; an  *)
(* update made inside an event handler is rendered before the next event,  *)
(* an update made by the continuation of an await is rendered by a later   *)
(* Render step.                                                            *)
(***************************************************************************)
EXTENDS Integers, Sequences, FiniteSets, TLC

\* ---- bounds of the model ----
MaxIngested == 2   \* files accepted by handleFiles over a behaviour
MaxBatch == 2      \* files handed to one handleFiles call
NumIds == 2        \* distinct outcomes of the random id generator
MaxSeq == 4        \* length of the sequences the reorder harness starts from
MaxStore == 2      \* length of the stores the conversion harness starts from
PagedItems == 6    \* length of the store the pagination harness starts from
MaxWords == 4      \* words of the descriptions the wrapping harness starts from

\* ---- strings that are inspected character by character are tuples ----
Alphabet ==
  <<".", "a", "b", "c", "d", "e", "f", "g", "h", "i", "j", "k", "l", "m",
    "n", "o", "p", "q", "r", "s", "t", "u", "v", "w", "x", "y", "z">>

Upper ==
  <<".", "A", "B", "C", "D", "E", "F", "G", "H", "I", "J", "K", "L", "M",
    "N", "O", "P", "Q", "R", "S", "T", "U", "V", "W", "X", "Y", "Z">>

IsUpper(c) == \E i \in 2..Len(Upper) : Upper[i] = c

\* String.prototype.toLowerCase on one character
LowerChar(c) ==
  IF IsUpper(c) THEN Alphabet[CHOOSE i \in 2..Len(Upper) : Upper[i] = c] ELSE c

toLowerCase(s) == [i \in 1..Len(s) |-> LowerChar(s[i])]

endsWith(s, suffix) ==
  /\ Len(suffix) <= Len(s)
  /\ SubSeq(s, Len(s) - Len(suffix) + 1, Len(s)) = suffix

\* primary collation weight of a character: punctuation before letters,
\* letters in alphabetical order whatever their case
Primary(c) == CHOOSE i \in 1..Len(Alphabet) : Alphabet[i] = LowerChar(c)

RECURSIVE ComparePrimary(_, _)
ComparePrimary(a, b) ==
  IF a = <<>> /\ b = <<>> THEN 0
  ELSE IF a = <<>> THEN -1
  ELSE IF b = <<>> THEN 1
  ELSE IF Primary(Head(a)) < Primary(Head(b)) THEN -1
  ELSE IF Primary(Head(a)) > Primary(Head(b)) THEN 1
  ELSE ComparePrimary(Tail(a), Tail(b))

RECURSIVE CompareCase(_, _)
CompareCase(a, b) ==
  IF a = <<>> \/ b = <<>> THEN 0
  ELSE IF Head(a) = Head(b) THEN CompareCase(Tail(a), Tail(b))
  ELSE IF IsUpper(Head(b)) THEN -1
  ELSE 1

\* String.prototype.localeCompare under the default collation: letters are
\* compared ignoring case first, and case breaks ties (lower case first)
localeCompare(a, b) ==
  IF ComparePrimary(a, b) # 0 THEN ComparePrimary(a, b) ELSE CompareCase(a, b)

\* ---- text the encoders build ----
\* a string literal as the tuple of its characters
Chars(s) == [i \in 1..Len(s) |-> SubSeq(s, i, i)]

\* the concatenation of a sequence of strings
RECURSIVE Concat(_)
Concat(ss) ==
  IF ss = <<>> THEN <<>>
  ELSE IF Len(ss) = 1 THEN ss[1]
  ELSE Concat(SubSeq(ss, 1, Len(ss) \div 2)) \o Concat(SubSeq(ss, Len(ss) \div 2 + 1, Len(ss)))

\* String.prototype.repeat
repeat(c, n) == [i \in 1..n |-> c]

DigitChar(d) == SubSeq("0123456789", d + 1, d + 1)

\* a non-negative integer in a template literal
RECURSIVE Digits(_)
Digits(n) == IF n < 10 THEN <<DigitChar(n)>> ELSE Digits(n \div 10) \o <<DigitChar(n % 10)>>

\* (x / divisor).toFixed(2): the nearest multiple of 0.01, the larger of two
toFixed2(x, divisor) ==
  LET hundredths == (x * 200 + divisor) \div (2 * divisor)
  IN Digits(hundredths \div 100)
       \o <<".", DigitChar((hundredths \div 10) % 10), DigitChar(hundredths % 10)>>

\* the position in text of the k-th separator; 0 and Len(text) + 1 stand for
\* the two ends
BreakAt(text, separator, k) ==
  LET breaks == { i \in 1..Len(text) : text[i] = separator }
  IN IF k = 0 THEN 0
     ELSE IF k > Cardinality(breaks) THEN Len(text) + 1
     ELSE CHOOSE i \in breaks : Cardinality({ j \in breaks : j <= i }) = k

\* String.prototype.split(separator), for a separator of one character
split(text, separator) ==
  [k \in 1..Cardinality({ i \in 1..Len(text) : text[i] = separator }) + 1 |->
     SubSeq(text, BreakAt(text, separator, k - 1) + 1, BreakAt(text, separator, k) - 1)]

\* ---- raw files offered by the file picker or a drop ----
\* type is the declared media type "top/sub" ("" when both parts are empty)
Mime(top, sub) == [top |-> top, sub |-> sub]

MimeString(t) == IF t.top = "" THEN "" ELSE t.top \o "/" \o t.sub

RawFile(name, type, size, decodable, text) ==
  [name |-> name, type |-> type, size |-> size, decodable |-> decodable, text |-> text]

\* a sound image, an image whose bytes do not decode, and a text file
RawFiles ==
  { RawFile(<<"a", ".", "p", "n", "g">>, Mime("image", "png"), 2048, TRUE, <<>>),
    RawFile(<<"b", ".", "p", "n", "g">>, Mime("image", "png"), 1024, FALSE, <<>>),
    RawFile(<<"c", ".", "T", "X", "T">>, Mime("", ""), 2, TRUE, <<"h", "i">>) }

Batches == UNION { [1..n -> RawFiles] : n \in 1..MaxBatch }

Ids == 1..NumIds

\* ---- FileItem.content: a string, or undefined ----
Undefined == [def |-> FALSE, s |-> <<>>]

Str(s) == [def |-> TRUE, s |-> s]

Truthy(c) == c.def /\ c.s # <<>>

VARIABLES
  files,               \* useState<FileItem[]>
  sortOrder,           \* useState<"name" | "custom">
  isGenerating,        \* useState(false)
  currentPage,         \* useState(0)
  shown,               \* the files, isGenerating and currentPage of the last render
  ingests,             \* handleFiles activations suspended in readTextFile
  runs,                \* generateDocument activations suspended in an await
  ingested,            \* files accepted by handleFiles so far
  nextUrl,             \* object URLs created so far
  revoked,             \* object URLs revoked so far
  downloads,           \* artifacts delivered since the last request started
  consoleError,        \* what the last request logged with console.error
  alertMessage,        \* what the last request showed with alert
  request,             \* the options, settings and files of the last request
  drags,               \* the last two consecutive drags (reorder harness)
  probe,               \* the input handed to a harness of a pure function
  verdict              \* what the function made of the probe

vars ==
  <<files, sortOrder, isGenerating, currentPage, shown, ingests, runs, ingested, nextUrl,
    revoked, downloads, consoleError, alertMessage, request, drags, probe, verdict>>

harnessVars == <<drags, probe, verdict>>

urlVars == <<nextUrl, revoked>>

runVars == <<runs, isGenerating, downloads, consoleError, alertMessage, request>>

\* ---- File Classifier ----
supportedTypes ==
  { "image/jpeg", "image/png", "image/gif", "image/webp", "image/bmp",
    "application/pdf", "text/plain", "text/csv", "text/html", "text/markdown",
    "application/rtf", "application/msword",
    "application/vnd.openxmlformats-officedocument.wordprocessingml.document" }

IsValidFile(file) ==
  \/ \E type \in supportedTypes : MimeString(file.type) = type
  \/ endsWith(toLowerCase(file.name), <<".", "t", "x", "t">>)
  \/ endsWith(toLowerCase(file.name), <<".", "m", "d">>)
  \/ endsWith(toLowerCase(file.name), <<".", "r", "t", "f">>)

getFileType(file) ==
  IF file.type.top = "image" THEN "image"
  ELSE IF MimeString(file.type) = "application/pdf" THEN "pdf"
  ELSE "document"

\* the document files whose text handleFiles awaits
IsTextRead(file) ==
  /\ getFileType(file) = "document"
  /\ \/ file.type.top = "text"
     \/ endsWith(toLowerCase(file.name), <<".", "t", "x", "t">>)
     \/ endsWith(toLowerCase(file.name), <<".", "m", "d">>)

\* ---- Ordering Store helpers ----
RECURSIVE InsertSorted(_, _)
InsertSorted(sorted, item) ==
  IF sorted = <<>> THEN <<item>>
  ELSE IF localeCompare(item.name, Head(sorted).name) < 0 THEN <<item>> \o sorted
  ELSE <<Head(sorted)>> \o InsertSorted(Tail(sorted), item)

\* Array.prototype.sort((a, b) => a.name.localeCompare(b.name)): stable
RECURSIVE SortByName(_)
SortByName(s) ==
  IF s = <<>> THEN <<>>
  ELSE InsertSorted(SortByName(SubSeq(s, 1, Len(s) - 1)), s[Len(s)])

IsSortedByName(s) ==
  \A i \in 1..Len(s) - 1 : localeCompare(s[i].name, s[i + 1].name) <= 0

\* Array.prototype.splice(index, 1) and splice(index, 0, item), 0-based
RemoveAt(s, index) == SubSeq(s, 1, index) \o SubSeq(s, index + 2, Len(s))

InsertAt(s, index, item) == SubSeq(s, 1, index) \o <<item>> \o SubSeq(s, index + 1, Len(s))

Rendered(f, g, p) == [files |-> f, isGenerating |-> g, currentPage |-> p]

\* ---- pagination of the file list ----
itemsPerPage == 4

\* Math.ceil(files.length / itemsPerPage)
totalPages(view) == (Len(view.files) + itemsPerPage - 1) \div itemsPerPage

\* files.slice(startIndex, endIndex) holds the item at position i (from 1)
InCurrentFiles(view, i) ==
  /\ i \in 1..Len(view.files)
  /\ i > view.currentPage * itemsPerPage
  /\ i <= view.currentPage * itemsPerPage + itemsPerPage

\* ---- ingestion: handleFileSelect / handleDrop -> handleFiles ----
Preview(kind, url, text) == [kind |-> kind, url |-> url, text |-> text]

\* content.substring(0, 200) + (content.length > 200 ? "..." : "")
TextPreview(content) ==
  SubSeq(content, 1, IF Len(content) > 200 THEN 200 ELSE Len(content))
    \o (IF Len(content) > 200 THEN <<".", ".", ".">> ELSE <<>>)

FileItem(id, file, preview, content) ==
  [id |-> id, file |-> file, preview |-> preview, name |-> file.name,
   type |-> getFileType(file), content |-> content]

\* the loop body for a file that needs no await
PlainItem(file, id, url) ==
  IF getFileType(file) = "image"
    THEN FileItem(id, file, Preview("url", url + 1, <<>>), Str(<<>>))
  ELSE IF getFileType(file) = "document"
    THEN FileItem(id, file, Preview("size", 0, file.name), Str(<<>>))
  ELSE FileItem(id, file, Preview("pdfsize", 0, <<>>), Str(<<>>))

\* the loop body for a file whose text was awaited: reader.onload resolves
\* with (result || ""), reader.onerror rejects and the catch keeps content ""
ReadItem(file, id, readOk) ==
  IF readOk
    THEN FileItem(id, file, Preview("text", 0, TextPreview(file.text)), Str(file.text))
    ELSE FileItem(id, file, Preview("unable", 0, file.name), Str(<<>>))

\* for (const file of validFiles) from index k up to the next await
RECURSIVE LoopFrom(_, _, _, _, _)
LoopFrom(validFiles, k, fileItems, ids, url) ==
  IF k > Len(validFiles) \/ IsTextRead(validFiles[k])
    THEN [k |-> k, fileItems |-> fileItems, url |-> url]
    ELSE LoopFrom(validFiles, k + 1,
                  Append(fileItems, PlainItem(validFiles[k], ids[k], url)), ids,
                  IF getFileType(validFiles[k]) = "image" THEN url + 1 ELSE url)

\* the updater handed to setFiles at the end of handleFiles
CommitFiles(prev, fileItems, closureSortOrder) ==
  IF closureSortOrder = "name" THEN SortByName(prev \o fileItems) ELSE prev \o fileItems

\* handleFiles(newFiles) as seen by the closure that calls it; ids are the
\* values Math.random().toString(36).substr(2, 9) yields for the new items
handleFiles(newFiles, closureSortOrder) ==
  LET validFiles == SelectSeq(newFiles, IsValidFile)
  IN /\ ingested + Len(validFiles) <= MaxIngested
     /\ ingested' = ingested + Len(validFiles)
     /\ \E ids \in [1..Len(validFiles) -> Ids] :
          LET r == LoopFrom(validFiles, 1, <<>>, ids, nextUrl)
          IN /\ nextUrl' = r.url
             /\ IF r.k > Len(validFiles)
                  THEN /\ files' = CommitFiles(files, r.fileItems, closureSortOrder)
                       /\ currentPage' = 0
                       /\ shown' = Rendered(files', isGenerating, 0)
                       /\ UNCHANGED ingests
                  ELSE /\ ingests' = Append(ingests,
                             [validFiles |-> validFiles, k |-> r.k,
                              fileItems |-> r.fileItems, sortOrder |-> closureSortOrder])
                       /\ UNCHANGED <<files, currentPage, shown>>
     /\ UNCHANGED <<sortOrder, revoked, runVars, harnessVars>>

\* the file input's onChange: the handleFiles of the current render
handleFileSelect(newFiles) == handleFiles(newFiles, sortOrder)

\* useCallback(..., []): the handleFiles of the first render, whose
\* sortOrder is the initial "name"
handleDrop(newFiles) == handleFiles(newFiles, "name")

\* a handleFiles whose await is outside the try: a rejected read ends it
ReadSettledAborting(i, readOk) ==
  LET p == ingests[i]
  IN /\ \E ids \in [p.k..Len(p.validFiles) -> Ids] :
          LET item == ReadItem(p.validFiles[p.k], ids[p.k], readOk)
              r == LoopFrom(p.validFiles, p.k + 1, Append(p.fileItems, item), ids, nextUrl)
          IN IF ~readOk
               THEN /\ ingests' = RemoveAt(ingests, i - 1)
                    /\ UNCHANGED <<files, currentPage, nextUrl>>
               ELSE /\ nextUrl' = r.url
                    /\ IF r.k > Len(p.validFiles)
                         THEN /\ files' = CommitFiles(files, r.fileItems, p.sortOrder)
                              /\ currentPage' = 0
                              /\ ingests' = RemoveAt(ingests, i - 1)
                         ELSE /\ ingests' = [ingests EXCEPT
                                               ![i] = [p EXCEPT !.k = r.k,
                                                                !.fileItems = r.fileItems]]
                              /\ UNCHANGED <<files, currentPage>>
     /\ UNCHANGED <<sortOrder, shown, ingested, revoked, runVars, harnessVars>>

\* readTextFile settles for the activation at position i
ReadSettled(i, readOk) ==
  LET p == ingests[i]
  IN /\ \E ids \in [p.k..Len(p.validFiles) -> Ids] :
          LET item == ReadItem(p.validFiles[p.k], ids[p.k], readOk)
              r == LoopFrom(p.validFiles, p.k + 1, Append(p.fileItems, item), ids, nextUrl)
          IN /\ nextUrl' = r.url
             /\ IF r.k > Len(p.validFiles)
                  THEN /\ files' = CommitFiles(files, r.fileItems, p.sortOrder)
                       /\ currentPage' = 0
                       /\ ingests' = RemoveAt(ingests, i - 1)
                  ELSE /\ ingests' = [ingests EXCEPT
                                        ![i] = [p EXCEPT !.k = r.k, !.fileItems = r.fileItems]]
                       /\ UNCHANGED <<files, currentPage>>
     /\ UNCHANGED <<sortOrder, shown, ingested, revoked, runVars, harnessVars>>

\* ---- Ordering Store operations ----
RevokedBy(prev, id) ==
  LET hits == SelectSeq(prev, LAMBDA item : item.id = id)
  IN IF hits # <<>> /\ hits[1].type = "image" THEN {hits[1].preview.url} ELSE {}

removeFile(id) ==
  /\ \E i \in 1..Len(shown.files) : InCurrentFiles(shown, i) /\ shown.files[i].id = id
  /\ files' = SelectSeq(files, LAMBDA item : item.id # id)
  /\ revoked' = revoked \cup RevokedBy(files, id)
  /\ shown' = Rendered(files', isGenerating, currentPage)
  /\ UNCHANGED <<sortOrder, currentPage, ingests, ingested, nextUrl, runVars, harnessVars>>

NoDestination == -1

\* a reorder that exchanges the two positions
ReorderSwap(items, source, destination) ==
  [i \in 1..Len(items) |->
     IF i = source + 1 THEN items[destination + 1]
     ELSE IF i = destination + 1 THEN items[source + 1]
     ELSE items[i]]

\* a reorder that corrects the destination for the removed element
ReorderShifted(items, source, destination) ==
  InsertAt(RemoveAt(items, source),
           IF source < destination THEN destination - 1 ELSE destination, items[source + 1])

\* items.splice(source, 1) then items.splice(destination, 0, reorderedItem)
Reorder(items, source, destination) == InsertAt(RemoveAt(items, source), destination, items[source + 1])

\* the program part of handleDragEnd; drags are offered in custom order only
DragEnd(source, destination) ==
  /\ sortOrder = "custom"
  /\ InCurrentFiles(shown, source + 1)
  /\ destination = NoDestination \/ InCurrentFiles(shown, destination + 1)
  /\ IF destination = NoDestination
       THEN UNCHANGED <<files, shown>>
       ELSE /\ files' = Reorder(shown.files, source, destination)
            /\ shown' = Rendered(files', isGenerating, currentPage)
  /\ UNCHANGED <<sortOrder, currentPage, ingests, ingested, urlVars, runVars, probe, verdict>>

handleDragEnd(source, destination) == DragEnd(source, destination) /\ UNCHANGED drags

\* sortFiles as the order selector calls it: it tests the sortOrder of the
\* render in which the selector was shown
sortFiles(prev, closureSortOrder) == IF closureSortOrder = "name" THEN SortByName(prev) ELSE prev

OrderSelect(value) ==
  /\ sortOrder' = value
  /\ files' = IF value = "name" THEN sortFiles(files, sortOrder) ELSE files
  /\ currentPage' = 0
  /\ shown' = Rendered(files', isGenerating, 0)
  /\ UNCHANGED <<ingests, ingested, urlVars, runVars, harnessVars>>

\* the Next button, shown when totalPages > 1 and disabled on the last page
goToNextPage ==
  /\ totalPages(shown) > 1
  /\ shown.currentPage # totalPages(shown) - 1
  /\ shown.currentPage < totalPages(shown) - 1
  /\ currentPage' = shown.currentPage + 1
  /\ shown' = Rendered(files, isGenerating, currentPage')
  /\ UNCHANGED <<files, sortOrder, ingests, ingested, urlVars, runVars, harnessVars>>

\* the Previous button, shown when totalPages > 1 and disabled on page 0
goToPreviousPage ==
  /\ totalPages(shown) > 1
  /\ shown.currentPage # 0
  /\ shown.currentPage > 0
  /\ currentPage' = shown.currentPage - 1
  /\ shown' = Rendered(files, isGenerating, currentPage')
  /\ UNCHANGED <<files, sortOrder, ingests, ingested, urlVars, runVars, harnessVars>>

\* the component function runs again with the current state
Render ==
  /\ shown # Rendered(files, isGenerating, currentPage)
  /\ shown' = Rendered(files, isGenerating, currentPage)
  /\ UNCHANGED <<files, sortOrder, currentPage, ingests, ingested, urlVars, runVars,
                 harnessVars>>

\* ---- the request: ConversionOptions and enhancementSettings ----
\* one format for each arm of the switch of generateDocument: the PDF encoder,
\* a text encoder, the archive stub, the per-image export, and "docx", which
\* the type declares and no arm handles
OutputFormats == {"pdf", "txt", "zip", "png", "docx"}

\* useState<ConversionOptions>({...})
DefaultOptions ==
  [outputFormat |-> "pdf", imageQuality |-> 85, pageSize |-> "a4", orientation |-> "portrait",
   mergeDocuments |-> TRUE, includeMetadata |-> TRUE, compressionLevel |-> 6]

\* the options after the format selector was set to outputFormat
OptionsFor(outputFormat) == [DefaultOptions EXCEPT !.outputFormat = outputFormat]

\* new Date().toLocaleDateString() and new Date().toISOString() on the day of
\* the run
Today == Chars("11/1/2026")

Now == Chars("2026-11-01T09:30:00.000Z")

\* useState<CoverPageData>({...})
coverPageData ==
  [title |-> Chars("Document Collection"), subtitle |-> <<>>, author |-> <<>>, date |-> Today,
   description |-> <<>>, backgroundColor |-> Chars("#ffffff"), textColor |-> Chars("#000000")]

NoEnhancement ==
  [brightness |-> 0, contrast |-> 0, sharpness |-> 0, autoEnhance |-> FALSE,
   denoiseScanned |-> FALSE]

\* the settings a request is made with: the initial ones, or denoise checked
EnhancementChoices == {NoEnhancement, [NoEnhancement EXCEPT !.denoiseScanned = TRUE]}

\* an enhancement guard that lets every image through enhanceImage
EnhancementActiveAlways(settings) == TRUE

\* the guard of generatePDF that sends an image through enhanceImage
EnhancementActive(settings) ==
  \/ settings.brightness # 0
  \/ settings.contrast # 0
  \/ settings.sharpness > 0
  \/ settings.autoEnhance
  \/ settings.denoiseScanned

\* what a click on Convert works with: the conversionOptions, includeCoverPage,
\* enhancementSettings and files of the render that showed the button
Request(conversionOptions, includeCoverPage, enhancementSettings, snapshot) ==
  [conversionOptions |-> conversionOptions, includeCoverPage |-> includeCoverPage,
   enhancementSettings |-> enhancementSettings, files |-> snapshot]

NoRequest == Request(OptionsFor("none"), FALSE, NoEnhancement, <<>>)

\* ---- images on their way to an encoder ----
Op(name, a, b) == [op |-> name, a |-> a, b |-> b]

\* the pixels behind a URL: the object URL they were read from and the canvas
\* operations they went through since
ImageData(url, ops) == [url |-> url, ops |-> ops]

\* canvas.toDataURL("image/jpeg", imageQuality / 100)
toDataURL(image, imageQuality) ==
  ImageData(image.url, Append(image.ops, Op("jpeg", imageQuality, 100)))

\* canvas.toBlob(callback, format, quality)
toBlob(image, outputFormat, imageQuality) ==
  ImageData(image.url,
            Append(image.ops, IF outputFormat = "png" THEN Op("png", 0, 0)
                              ELSE Op("jpeg", imageQuality, 100)))

\* what enhanceImage does to the canvas in img.onload, in this order
EnhanceOps(settings) ==
  <<Op("brightness-contrast", 100 + settings.brightness, 100 + settings.contrast)>>
    \o (IF settings.autoEnhance THEN <<Op("saturate-hue", 110, 2)>> ELSE <<>>)
    \o (IF settings.sharpness > 0 THEN <<Op("sharpen", settings.sharpness, 10)>> ELSE <<>>)
    \o (IF settings.denoiseScanned THEN <<Op("denoise", 50, 200)>> ELSE <<>>)

\* ---- the pixel passes of enhanceImage, on one pixel of the ImageData ----
\* data[i], data[i + 1], data[i + 2], data[i + 3] of a Uint8ClampedArray
Pixel(r, g, b, a) == [r |-> r, g |-> g, b |-> b, a |-> a]

\* a denoise pass whose thresholds include 50 and 200
denoisePixelInclusive(px) ==
  IF px.r + px.g + px.b <= 3 * 50 THEN Pixel(0, 0, 0, px.a)
  ELSE IF px.r + px.g + px.b >= 3 * 200 THEN Pixel(255, 255, 255, px.a)
  ELSE px

\* the body of the denoise loop: avg = (r + g + b) / 3 is compared with 50
\* and 200; avg < 50 is r + g + b < 150 and avg > 200 is r + g + b > 600
denoisePixel(px) ==
  IF px.r + px.g + px.b < 3 * 50 THEN Pixel(0, 0, 0, px.a)
  ELSE IF px.r + px.g + px.b > 3 * 200 THEN Pixel(255, 255, 255, px.a)
  ELSE px

\* the values a Uint8ClampedArray element can hold after numerator / 30 was
\* assigned to it: the nearest integer in 0..255.  The value is a
\* floating-point product, so that half-way cases can fall either way.
Uint8Clamped(numerator) ==
  IF numerator <= 0 THEN {0}
  ELSE IF numerator >= 255 * 30 THEN {255}
  ELSE IF 2 * (numerator % 30) < 30 THEN {numerator \div 30}
  ELSE IF 2 * (numerator % 30) > 30 THEN {numerator \div 30 + 1}
  ELSE {numerator \div 30, numerator \div 30 + 1}

\* Math.min(255, Math.max(0, channel + enhancement)), in thirtieths
ClampedSum(channel, enhancement30) ==
  LET x == 30 * channel + enhancement30
  IN IF x < 0 THEN 0 ELSE IF x > 255 * 30 THEN 255 * 30 ELSE x

\* a sharpening that scales every channel by itself
sharpenPixelPerChannel(px, sharpness) ==
  { Pixel(r, g, b, px.a) :
      r \in Uint8Clamped(ClampedSum(px.r, 3 * px.r * sharpness)),
      g \in Uint8Clamped(ClampedSum(px.g, 3 * px.g * sharpness)),
      b \in Uint8Clamped(ClampedSum(px.b, 3 * px.b * sharpness)) }

\* the body of the sharpening loop: brightness = (r + g + b) / 3 and
\* enhancement = brightness * (sharpness / 10), so that 30 * enhancement is
\* (r + g + b) * sharpness; the outcomes for one pixel
sharpenPixel(px, sharpness) ==
  { Pixel(r, g, b, px.a) :
      r \in Uint8Clamped(ClampedSum(px.r, (px.r + px.g + px.b) * sharpness)),
      g \in Uint8Clamped(ClampedSum(px.g, (px.r + px.g + px.b) * sharpness)),
      b \in Uint8Clamped(ClampedSum(px.b, (px.r + px.g + px.b) * sharpness)) }

\* if (settings.sharpness > 0) { ... }
sharpen(px, sharpness) == IF sharpness > 0 THEN sharpenPixel(px, sharpness) ELSE {px}

enhanceImage(image, settings, imageQuality) ==
  toDataURL(ImageData(image.url, image.ops \o EnhanceOps(settings)), imageQuality)

\* ---- Conversion Orchestrator and encoders ----
\* downloadFile(content, filename, mimeType); the filename is kind, or
\* stem, followed by "." and ext
Artifact(kind, stem, ext, content) ==
  [kind |-> kind, stem |-> stem, ext |-> ext, content |-> content]

\* downloadFile(content, "converted-documents.<ext>", mimeType)
Merged(ext, content) == Artifact("converted-documents", <<>>, ext, content)

\* a replace that cuts the name at its first "."
StripExtFirstDot(name) ==
  LET dots == { i \in 1..Len(name) - 1 : name[i] = "." }
  IN IF dots = {} THEN name
     ELSE SubSeq(name, 1, (CHOOSE i \in dots : \A j \in dots : i <= j) - 1)

\* name.replace(/\.[^/.]+$/, ""): drop a last ".ext" that has no "/" in it
StripExt(name) ==
  LET dots == { i \in 1..Len(name) - 1 :
                  /\ name[i] = "."
                  /\ \A j \in i + 1..Len(name) : name[j] \notin {".", "/"} }
  IN IF dots = {} THEN name ELSE SubSeq(name, 1, (CHOOSE i \in dots : TRUE) - 1)

\* img.src = url: a revoked object URL and undecodable bytes both end in onerror
LoadOk(item) == item.file.decodable /\ item.preview.url \notin revoked

\* a Convert button that stays enabled while a run is in flight
ConvertDisabledIdleOnly(view) == Len(view.files) = 0

\* the Convert button: disabled={files.length === 0 || isGenerating}
ConvertDisabled(view) == Len(view.files) = 0 \/ view.isGenerating

\* an activation of generateDocument: the values its closure holds (files,
\* options, settings), the items its encoder loops over, the pages of the jsPDF
\* document and its isFirstPage, the image being loaded, and where it is
\* suspended
\* an activation that walks its items from the last to the first
RunBackwards(req, items) ==
  [files |-> req.files, items |-> [i \in 1..Len(items) |-> items[Len(items) + 1 - i]],
   outputFormat |-> req.conversionOptions.outputFormat,
   options |-> req.conversionOptions, includeCoverPage |-> req.includeCoverPage,
   settings |-> req.enhancementSettings, pages |-> <<>>, isFirstPage |-> TRUE,
   image |-> ImageData(0, <<>>), pc |-> "start", k |-> 0, ok |-> TRUE]

Run(req, items) ==
  [files |-> req.files, items |-> items, outputFormat |-> req.conversionOptions.outputFormat,
   options |-> req.conversionOptions, includeCoverPage |-> req.includeCoverPage,
   settings |-> req.enhancementSettings, pages |-> <<>>, isFirstPage |-> TRUE,
   image |-> ImageData(0, <<>>), pc |-> "start", k |-> 0, ok |-> TRUE]

Step(run, delivered, error) ==
  [run |-> run, delivered |-> delivered, error |-> error, alert |-> "none"]

Done(run, delivered, error) == Step([run EXCEPT !.pc = "done"], delivered, error)

\* ---- generatePDF ----
\* new jsPDF(orientation, "mm", pageSize): a document of one empty page; a
\* page is the sequence of what was drawn on it
jsPDF == << <<>> >>

\* pdf.addPage(): the new page becomes the current one
addPage(pdf) == Append(pdf, <<>>)

\* what one pdf.addImage, or the pdf.text calls of one block, put on a page
Placed(kind, name, body) == [kind |-> kind, name |-> name, body |-> body]

\* pdf.addImage(...) and pdf.text(...) draw on the current page
Draw(pdf, placed) == [pdf EXCEPT ![Len(pdf)] = Append(@, placed)]

\* pdf.internal.pageSize.getHeight() of an a4 portrait document, in mm
pageHeight == 297

\* the margin and lineHeight of addTextToPDF, and the startY generatePDF
\* passes to it
margin == 20

lineHeight == 7

startY == 35

\* pdf.splitTextToSize(text, maxWidth): the lines of text; every line of the
\* texts at hand is narrower than maxWidth and stays whole
splitTextToSize(text) == split(text, "\n")

\* addTextToPDF: for (const line of lines) with the running currentY
RECURSIVE addTextToPDF(_, _, _, _)
addTextToPDF(pdf, name, lines, currentY) ==
  IF lines = <<>> THEN pdf
  ELSE IF currentY > pageHeight - margin
    THEN addTextToPDF(Draw(addPage(pdf), Placed("line", name, Head(lines))), name,
                      Tail(lines), margin + lineHeight)
  ELSE addTextToPDF(Draw(pdf, Placed("line", name, Head(lines))), name, Tail(lines),
                    currentY + lineHeight)

\* ---- generateCoverPage: the description block ----
\* the advance of a glyph in the font of the description; the lines of the
\* harness are filled by a few glyphs
GlyphWidth(c) == IF c = "m" THEN 150 ELSE 50

\* ctx.measureText(text).width: the advances of the glyphs, added up
RECURSIVE measureText(_)
measureText(text) ==
  IF text = <<>> THEN 0 ELSE GlyphWidth(Head(text)) + measureText(Tail(text))

\* a test that breaks the line at the budget already
ExceedsBudgetInclusive(testWidth) == testWidth >= 400

\* testWidth > 400
ExceedsBudget(testWidth) == testWidth > 400

\* for (let n = 0; n < words.length; n++), from the word at position n (from
\* 1) on, and the ctx.fillText(line, ...) after the loop; lines are the lines
\* drawn so far
RECURSIVE WrapFrom(_, _, _, _)
WrapFrom(words, n, line, lines) ==
  IF n > Len(words) THEN Append(lines, line)
  ELSE LET testLine == line \o words[n] \o <<" ">>
       IN IF ExceedsBudget(measureText(testLine)) /\ n - 1 > 0
            THEN WrapFrom(words, n + 1, words[n] \o <<" ">>, Append(lines, line))
            ELSE WrapFrom(words, n + 1, testLine, lines)

\* if (coverPageData.description) { ... }: the lines drawn for a description
descriptionLines(description) ==
  IF description = <<>> THEN <<>> ELSE WrapFrom(split(description, " "), 1, <<>>, <<>>)

\* generateCoverPage: a 595 x 842 canvas resolved as canvas.toDataURL("image/jpeg", 1.0)
generateCoverPage == toDataURL(ImageData(0, <<Op("cover", 595, 842)>>), 100)

\* what an item that needs no await draws: a heading and the text of a
\* document with content, the size notice of a PDF, nothing otherwise
PdfPage(pdf, fileItem) ==
  IF fileItem.type = "document" /\ Truthy(fileItem.content)
    THEN addTextToPDF(Draw(pdf, Placed("heading", fileItem.name, <<>>)), fileItem.name,
                      splitTextToSize(fileItem.content.s), startY)
  ELSE IF fileItem.type = "pdf"
    THEN Draw(pdf, Placed("pdf", fileItem.name, toFixed2(fileItem.file.size, 1024 * 1024)))
  ELSE pdf

\* if (!isFirstPage) pdf.addPage()
BeginItem(pdf, isFirstPage) == IF isFirstPage THEN pdf ELSE addPage(pdf)

\* generatePDF: for (const fileItem of files) from index k up to the next
\* await, or to pdf.save
RECURSIVE PdfFrom(_, _)
PdfFrom(run, k) ==
  IF k > Len(run.items)
    THEN Done([run EXCEPT !.k = k], <<Merged("pdf", run.pages)>>, "none")
    ELSE LET fileItem == run.items[k]
             pdf == BeginItem(run.pages, run.isFirstPage)
         IN IF fileItem.type = "image"
              THEN Step([run EXCEPT !.pc = IF EnhancementActive(run.settings) THEN "enhance"
                                           ELSE "pdfload",
                                    !.k = k, !.pages = pdf, !.ok = LoadOk(fileItem),
                                    !.image = ImageData(fileItem.preview.url, <<>>)],
                        <<>>, "none")
              ELSE PdfFrom([run EXCEPT !.pages = PdfPage(pdf, fileItem),
                                       !.isFirstPage = FALSE], k + 1)

generatePDF(run) ==
  PdfFrom([run EXCEPT !.pages = IF run.includeCoverPage
                                  THEN Draw(jsPDF, Placed("cover", <<>>, generateCoverPage))
                                  ELSE jsPDF,
                      !.isFirstPage = ~run.includeCoverPage], 1)

\* ---- generateTXT ----
TxtCover(cover) ==
  cover.title \o <<"\n">>
    \o (IF cover.subtitle # <<>> THEN cover.subtitle \o <<"\n">> ELSE <<>>)
    \o (IF cover.author # <<>> THEN Chars("By: ") \o cover.author \o <<"\n">> ELSE <<>>)
    \o cover.date \o <<"\n">>
    \o (IF cover.description # <<>> THEN <<"\n">> \o cover.description \o <<"\n">> ELSE <<>>)
    \o <<"\n">> \o repeat("=", 50) \o <<"\n", "\n">>

\* the body of the loop of generateTXT
TxtBlock(fileItem) ==
  Chars("Document: ") \o fileItem.name \o <<"\n">> \o repeat("-", 30) \o <<"\n">>
    \o (IF fileItem.type = "document" /\ Truthy(fileItem.content)
          THEN fileItem.content.s \o <<"\n", "\n">>
        ELSE IF fileItem.type = "image"
          THEN Chars("[Image file: ") \o fileItem.name \o <<"]", "\n", "\n">>
        ELSE IF fileItem.type = "pdf"
          THEN Chars("[PDF file: ") \o fileItem.name \o <<"]", "\n", "\n">>
        ELSE <<>>)

generateTXT(req) ==
  (IF req.includeCoverPage THEN TxtCover(coverPageData) ELSE <<>>)
    \o Concat([i \in 1..Len(req.files) |-> TxtBlock(req.files[i])])

\* ---- generateCSV ----
\* String.prototype.replace(/x/g, y)
replaceAll(s, x, y) == Concat([i \in 1..Len(s) |-> IF s[i] = x THEN y ELSE <<s[i]>>])

\* String.prototype.substring(0, n)
substring0(s, n) == SubSeq(s, 1, IF Len(s) < n THEN Len(s) ELSE n)

\* a preview that doubles the quotes before it cuts
CsvPreviewCutLast(fileItem) ==
  IF fileItem.type = "document" /\ Truthy(fileItem.content)
    THEN replaceAll(substring0(replaceAll(fileItem.content.s, "\"", <<"\"", "\"">>), 100),
                    "\n", <<" ">>)
    ELSE Chars(fileItem.type) \o Chars(" file")

CsvPreview(fileItem) ==
  IF fileItem.type = "document" /\ Truthy(fileItem.content)
    THEN replaceAll(replaceAll(substring0(fileItem.content.s, 100), "\"", <<"\"", "\"">>),
                    "\n", <<" ">>)
    ELSE Chars(fileItem.type) \o Chars(" file")

\* the three fields that come before the preview, with the comma after them
CsvRowHead(fileItem) ==
  <<"\"">> \o fileItem.name \o Chars("\",\"") \o Chars(fileItem.type) \o Chars("\",\"")
    \o toFixed2(fileItem.file.size, 1024) \o Chars("\",")

CsvRow(fileItem) == CsvRowHead(fileItem) \o <<"\"">> \o CsvPreview(fileItem) \o <<"\"", "\n">>

CsvHeader == Chars("Filename,Type,Size (KB),Content Preview") \o <<"\n">>

generateCSV(req) == CsvHeader \o Concat([i \in 1..Len(req.files) |-> CsvRow(req.files[i])])

\* ---- generateJSON ----
\* JavaScript values as JSON.stringify sees them
JNull == [t |-> "null", v |-> 0]

JBool(b) == [t |-> "bool", v |-> b]

JNum(n) == [t |-> "num", v |-> n]

JStr(s) == [t |-> "str", v |-> s]

JArr(items) == [t |-> "arr", v |-> items]

JObj(members) == [t |-> "obj", v |-> members]

Member(key, value) == [key |-> Chars(key), value |-> value]

\* the conversionOptions object
OptionsObject(options) ==
  JObj(<<Member("outputFormat", JStr(Chars(options.outputFormat))),
         Member("imageQuality", JNum(options.imageQuality)),
         Member("pageSize", JStr(Chars(options.pageSize))),
         Member("orientation", JStr(Chars(options.orientation))),
         Member("mergeDocuments", JBool(options.mergeDocuments)),
         Member("includeMetadata", JBool(options.includeMetadata)),
         Member("compressionLevel", JNum(options.compressionLevel))>>)

CoverObject(cover) ==
  JObj(<<Member("title", JStr(cover.title)), Member("subtitle", JStr(cover.subtitle)),
         Member("author", JStr(cover.author)), Member("date", JStr(cover.date)),
         Member("description", JStr(cover.description)),
         Member("backgroundColor", JStr(cover.backgroundColor)),
         Member("textColor", JStr(cover.textColor))>>)

CountType(snapshot, type) == Len(SelectSeq(snapshot, LAMBDA f : f.type = type))

generateMetadata(req) ==
  JObj(<<Member("title", JStr(IF coverPageData.title # <<>> THEN coverPageData.title
                              ELSE Chars("Document Collection"))),
         Member("author", JStr(IF coverPageData.author # <<>> THEN coverPageData.author
                               ELSE Chars("Unknown"))),
         Member("createdDate", JStr(Now)),
         Member("totalFiles", JNum(Len(req.files))),
         Member("fileTypes",
                JObj(<<Member("images", JNum(CountType(req.files, "image"))),
                       Member("documents", JNum(CountType(req.files, "document"))),
                       Member("pdfs", JNum(CountType(req.files, "pdf")))>>)),
         Member("conversionSettings", OptionsObject(req.conversionOptions))>>)

\* the string URL.createObjectURL returned for the n-th object URL
ObjectUrl(n) == Chars("blob:") \o Digits(n)

\* a record of the files array that keeps the name but writes the type twice
JsonFileTypeAsName(fileItem) ==
  JObj(<<Member("id", JStr(Digits(fileItem.id))),
         Member("name", JStr(Chars(fileItem.type))),
         Member("type", JStr(Chars(fileItem.type))),
         Member("size", JNum(fileItem.file.size)),
         Member("content", IF Truthy(fileItem.content) THEN JStr(fileItem.content.s) ELSE JNull),
         Member("preview", IF fileItem.type = "image" THEN JStr(ObjectUrl(fileItem.preview.url))
                           ELSE JNull)>>)

\* files.map((fileItem) => ({...}))
JsonFile(fileItem) ==
  JObj(<<Member("id", JStr(Digits(fileItem.id))),
         Member("name", JStr(fileItem.name)),
         Member("type", JStr(Chars(fileItem.type))),
         Member("size", JNum(fileItem.file.size)),
         Member("content", IF Truthy(fileItem.content) THEN JStr(fileItem.content.s) ELSE JNull),
         Member("preview", IF fileItem.type = "image" THEN JStr(ObjectUrl(fileItem.preview.url))
                           ELSE JNull)>>)

jsonData(req) ==
  JObj(<<Member("metadata", IF req.conversionOptions.includeMetadata THEN generateMetadata(req)
                            ELSE JNull),
         Member("coverPage", IF req.includeCoverPage THEN CoverObject(coverPageData) ELSE JNull),
         Member("files", JArr([i \in 1..Len(req.files) |-> JsonFile(req.files[i])])),
         Member("conversionOptions", OptionsObject(req.conversionOptions)),
         Member("generatedAt", JStr(Now))>>)

\* JSON.stringify of one character of a string
JsonEscape(c) ==
  IF c = "\"" THEN <<"\\", "\"">>
  ELSE IF c = "\\" THEN <<"\\", "\\">>
  ELSE IF c = "\n" THEN <<"\\", "n">>
  ELSE IF c = "\r" THEN <<"\\", "r">>
  ELSE IF c = "\t" THEN <<"\\", "t">>
  ELSE <<c>>

JsonQuote(s) == <<"\"">> \o Concat([i \in 1..Len(s) |-> JsonEscape(s[i])]) \o <<"\"">>

\* the line break and indentation JSON.stringify(value, null, 2) writes at a depth
JsonBreak(depth) == <<"\n">> \o repeat(" ", 2 * depth)

RECURSIVE Join(_, _)
Join(parts, separator) ==
  IF parts = <<>> THEN <<>>
  ELSE IF Len(parts) = 1 THEN parts[1]
  ELSE parts[1] \o separator \o Join(Tail(parts), separator)

\* JSON.stringify(value, null, 2)
RECURSIVE stringify(_, _)
stringify(value, depth) ==
  IF value.t = "null" THEN Chars("null")
  ELSE IF value.t = "bool" THEN (IF value.v THEN Chars("true") ELSE Chars("false"))
  ELSE IF value.t = "num" THEN Digits(value.v)
  ELSE IF value.t = "str" THEN JsonQuote(value.v)
  ELSE IF value.t = "arr"
    THEN IF value.v = <<>> THEN Chars("[]")
         ELSE <<"[">> \o JsonBreak(depth + 1)
                \o Join([i \in 1..Len(value.v) |-> stringify(value.v[i], depth + 1)],
                        <<",">> \o JsonBreak(depth + 1))
                \o JsonBreak(depth) \o <<"]">>
  ELSE IF value.v = <<>> THEN Chars("{}")
  ELSE <<"{">> \o JsonBreak(depth + 1)
         \o Join([i \in 1..Len(value.v) |->
                    JsonQuote(value.v[i].key) \o <<":", " ">>
                      \o stringify(value.v[i].value, depth + 1)],
                 <<",">> \o JsonBreak(depth + 1))
         \o JsonBreak(depth) \o <<"}">>

generateJSON(req) == stringify(jsonData(req), 0)

\* ---- generateZIP ----
generateZIP(req) ==
  Chars("ZIP Archive containing ") \o Digits(Len(req.files)) \o Chars(" files:") \o <<"\n", "\n">>
    \o Chars("Note: Full ZIP functionality requires JSZip library")

\* ---- generateImages ----
\* generateImages: for (const fileItem of imageFiles) from index k
ImagesFrom(run, k) ==
  IF k > Len(run.items)
    THEN Done([run EXCEPT !.k = k], <<>>, "none")
    ELSE Step([run EXCEPT !.pc = "imgload", !.k = k, !.ok = LoadOk(run.items[k]),
                          !.image = ImageData(run.items[k].preview.url, <<>>)], <<>>, "none")

\* a generateImages without the test for an empty imageFiles
generateImagesUnchecked(run) == ImagesFrom(run, 1)

generateImages(run) ==
  IF run.items = <<>>
    THEN [Done(run, <<>>, "none") EXCEPT !.alert = "No images found to convert"]
    ELSE ImagesFrom(run, 1)

\* the formats whose encoder is a string builder followed by downloadFile
TextFormats == {"txt", "html", "md", "csv", "json", "rtf"}

\* the text handed to downloadFile; the markup of the HTML, Markdown and RTF
\* encoders is not spelled out
TextOf(req) ==
  LET format == req.conversionOptions.outputFormat
  IN IF format = "txt" THEN generateTXT(req)
     ELSE IF format = "csv" THEN generateCSV(req)
     ELSE IF format = "json" THEN generateJSON(req)
     ELSE Chars(format)

\* a default arm that logs nothing
UnsupportedSilent(run) == Done(run, <<>>, "none")

\* default: console.error("Unsupported output format")
Unsupported(run) == Done(run, <<>>, "Unsupported output format")

\* the switch of generateDocument, each encoder run up to its first await
Dispatch(req) ==
  LET format == req.conversionOptions.outputFormat
  IN IF format = "pdf" THEN generatePDF(Run(req, req.files))
     ELSE IF format \in TextFormats
       THEN Done(Run(req, req.files), <<Merged(format, TextOf(req))>>, "none")
     ELSE IF format = "zip"
       THEN Done(Run(req, req.files),
                 <<Artifact("file-list", <<>>, "txt", generateZIP(req))>>, "none")
     ELSE IF format \in {"png", "jpg"}
       THEN generateImages(Run(req, SelectSeq(req.files, LAMBDA f : f.type = "image")))
     ELSE Unsupported(Run(req, req.files))

\* a test that lets an empty files through
NothingToConvertNever(snapshot) == FALSE

\* if (files.length === 0) return
NothingToConvert(snapshot) == Len(snapshot) = 0

\* a call of generateDocument, with the files, options and settings of the
\* render whose closure it is, up to its first await
generateDocumentCall(conversionOptions, includeCoverPage, enhancementSettings) ==
  /\ IF NothingToConvert(shown.files)
       THEN UNCHANGED <<runVars, shown>>
       ELSE LET req == Request(conversionOptions, includeCoverPage, enhancementSettings,
                               shown.files)
                s == Dispatch(req)
            IN /\ request' = req
               /\ downloads' = s.delivered
               /\ consoleError' = s.error
               /\ alertMessage' = s.alert
               /\ runs' = IF s.run.pc = "done" THEN runs ELSE Append(runs, s.run)
               /\ isGenerating' = (s.run.pc # "done")
               /\ shown' = Rendered(files, TRUE, currentPage)
  /\ UNCHANGED <<files, sortOrder, currentPage, ingests, ingested, urlVars>>

\* generateDocument as the Convert button calls it
generateDocument(conversionOptions, includeCoverPage, enhancementSettings) ==
  /\ ~ConvertDisabled(shown)
  /\ generateDocumentCall(conversionOptions, includeCoverPage, enhancementSettings)
  /\ UNCHANGED harnessVars

\* the activation at position i goes on to its next await, or returns
\* through finally { setIsGenerating(false) }
Resume(i, s) ==
  /\ downloads' = downloads \o s.delivered
  /\ consoleError' = s.error
  /\ IF s.run.pc = "done"
       THEN /\ runs' = RemoveAt(runs, i - 1)
            /\ isGenerating' = FALSE
       ELSE /\ runs' = [runs EXCEPT ![i] = s.run]
            /\ UNCHANGED isGenerating
  /\ UNCHANGED <<files, sortOrder, currentPage, shown, ingests, ingested, urlVars,
                 alertMessage, request, harnessVars>>

\* enhanceImage: img.onload draws, filters and resolves with a data URL;
\* generatePDF then loads that data URL.  There is no img.onerror.
EnhanceLoaded(i) ==
  /\ runs[i].pc = "enhance"
  /\ runs[i].ok
  /\ Resume(i, Step([runs[i] EXCEPT !.pc = "pdfload", !.ok = TRUE,
                                    !.image = enhanceImage(runs[i].image, runs[i].settings,
                                                           runs[i].options.imageQuality)],
                    <<>>, consoleError))

\* generatePDF: img.onload draws the image, re-encodes the canvas, places it
\* on the page and resolves
PdfImageLoaded(i) ==
  /\ runs[i].pc = "pdfload"
  /\ runs[i].ok
  /\ LET run == runs[i]
         image == Placed("image", run.items[run.k].name,
                         toDataURL(run.image, run.options.imageQuality))
     IN Resume(i, PdfFrom([run EXCEPT !.pages = Draw(run.pages, image),
                                      !.isFirstPage = FALSE], run.k + 1))

\* generateImages: img.onload draws the image and calls canvas.toBlob
ExportImageLoaded(i) ==
  /\ runs[i].pc = "imgload"
  /\ runs[i].ok
  /\ Resume(i, Step([runs[i] EXCEPT !.pc = "toblob"], <<>>, consoleError))

\* the toBlob callback: if (blob) downloadFile(...); resolve(null).  The
\* canvas holds the pixels of a loaded image, so the blob is not null.
BlobReady(i) ==
  /\ runs[i].pc = "toblob"
  /\ LET run == runs[i]
         s == ImagesFrom(run, run.k + 1)
         blob == toBlob(run.image, run.outputFormat, run.options.imageQuality)
         name == Artifact("image", StripExt(run.items[run.k].name), run.outputFormat, blob)
     IN Resume(i, Step(s.run, <<name>>, consoleError))

\* img.onerror = reject: the await throws, generateDocument catches, logs
\* and runs finally
ImageLoadFailed(i) ==
  /\ runs[i].pc \in {"pdfload", "imgload"}
  /\ ~runs[i].ok
  /\ Resume(i, Done(runs[i], <<>>, "Error generating document:"))

RunStep ==
  \E i \in 1..Len(runs) :
    \/ EnhanceLoaded(i)
    \/ PdfImageLoaded(i)
    \/ ExportImageLoaded(i)
    \/ BlobReady(i)
    \/ ImageLoadFailed(i)

\* ---- the program ----
Init ==
  /\ files = <<>>
  /\ sortOrder = "name"
  /\ isGenerating = FALSE
  /\ currentPage = 0
  /\ shown = Rendered(<<>>, FALSE, 0)
  /\ ingests = <<>>
  /\ runs = <<>>
  /\ ingested = 0
  /\ nextUrl = 0
  /\ revoked = {}
  /\ downloads = <<>>
  /\ consoleError = "none"
  /\ alertMessage = "none"
  /\ request = NoRequest
  /\ drags = <<>>
  /\ probe = RawFile(<<>>, Mime("", ""), 0, TRUE, <<>>)
  /\ verdict = "none"

Next ==
  \/ \E newFiles \in Batches : handleFileSelect(newFiles)
  \/ \E newFiles \in Batches : handleDrop(newFiles)
  \/ \E i \in 1..Len(ingests), readOk \in BOOLEAN : ReadSettled(i, readOk)
  \/ \E id \in Ids : removeFile(id)
  \/ \E source \in 0..MaxSeq - 1, destination \in (0..MaxSeq - 1) \cup {NoDestination} :
       handleDragEnd(source, destination)
  \/ \E value \in {"name", "custom"} : OrderSelect(value)
  \/ \E outputFormat \in OutputFormats, settings \in EnhancementChoices :
       generateDocument(OptionsFor(outputFormat), FALSE, settings)
  \/ RunStep
  \/ Render

Spec == Init /\ [][Next]_vars

\* the event loop runs every settled image load, toBlob callback and render
FairSpec == Spec /\ WF_vars(RunStep) /\ WF_vars(Render)

\* ---- reorder harness: a store in custom order, then drags only ----
aPng == CHOOSE f \in RawFiles : f.name[1] = "a"

bPng == CHOOSE f \in RawFiles : f.name[1] = "b"

cTxt == CHOOSE f \in RawFiles : f.name[1] = "c"

\* the k-th item of a store filled one file at a time
StoreItem(k) ==
  LET id == ((k - 1) % NumIds) + 1
  IN IF k % 3 = 1 THEN PlainItem(aPng, id, k - 1)
     ELSE IF k % 3 = 2 THEN PlainItem(bPng, id, k - 1)
     ELSE ReadItem(cTxt, id, TRUE)

IsInjective(s) == \A i, j \in 1..Len(s) : s[i] = s[j] => i = j

CustomStores ==
  { s \in UNION { [1..n -> { StoreItem(k) : k \in 1..MaxSeq }] : n \in 0..MaxSeq } :
      IsInjective(s) }

MoveInit ==
  /\ files \in CustomStores
  /\ sortOrder = "custom"
  /\ isGenerating = FALSE
  /\ currentPage = 0
  /\ shown = Rendered(files, FALSE, 0)
  /\ ingests = <<>>
  /\ runs = <<>>
  /\ ingested = MaxSeq
  /\ nextUrl = MaxSeq
  /\ revoked = {}
  /\ downloads = <<>>
  /\ consoleError = "none"
  /\ alertMessage = "none"
  /\ request = NoRequest
  /\ drags = <<>>
  /\ probe = RawFile(<<>>, Mime("", ""), 0, TRUE, <<>>)
  /\ verdict = "none"

Drag(source, destination) ==
  [source |-> source, destination |-> destination, before |-> shown.files]

\* handleDragEnd, with the drag and the sequence it was made on written down
LoggedDragEnd(source, destination) ==
  /\ DragEnd(source, destination)
  /\ drags' = IF drags = <<>> THEN <<Drag(source, destination)>>
              ELSE <<drags[Len(drags)], Drag(source, destination)>>

MoveNext ==
  \E source \in 0..MaxSeq - 1, destination \in (0..MaxSeq - 1) \cup {NoDestination} :
    LoggedDragEnd(source, destination)

MoveSpec == MoveInit /\ [][MoveNext]_vars

\* ---- classifier harness: one file descriptor, then its classification ----
ProbeTypes ==
  { Mime("image", "png"), Mime("image", "jpeg"), Mime("image", "bmp"), Mime("image", "tiff"),
    Mime("image", "svg+xml"), Mime("application", "pdf"), Mime("text", "plain"),
    Mime("text", "csv"), Mime("text", "markdown"), Mime("text", "xml"),
    Mime("application", "rtf"), Mime("application", "msword"), Mime("application", "zip"),
    Mime("", "") }

ProbeNames ==
  { <<"a", ".", "p", "n", "g">>, <<"a", ".", "t", "x", "t">>, <<"a", ".", "T", "X", "T">>,
    <<"a", ".", "m", "d">>, <<"a", ".", "r", "t", "f">>, <<"a", ".", "t", "i", "f">>,
    <<"t", "x", "t">>, <<"a", ".", "t", "x", "t", ".", "z", "i", "p">> }

\* what handleFiles makes of one file: dropped by the validFiles filter, or
\* given the type getFileType returns
Classification(file) == IF IsValidFile(file) THEN getFileType(file) ELSE "rejected"

ClassifyInit ==
  /\ probe \in { RawFile(n, t, 1024, TRUE, <<>>) : n \in ProbeNames, t \in ProbeTypes }
  /\ verdict = "none"
  /\ files = <<>>
  /\ sortOrder = "name"
  /\ isGenerating = FALSE
  /\ currentPage = 0
  /\ shown = Rendered(<<>>, FALSE, 0)
  /\ ingests = <<>>
  /\ runs = <<>>
  /\ ingested = 0
  /\ nextUrl = 0
  /\ revoked = {}
  /\ downloads = <<>>
  /\ consoleError = "none"
  /\ alertMessage = "none"
  /\ request = NoRequest
  /\ drags = <<>>

ClassifyProbe ==
  /\ verdict = "none"
  /\ verdict' = Classification(probe)
  /\ UNCHANGED <<files, sortOrder, currentPage, shown, ingests, ingested, urlVars, runVars,
                 drags, probe>>

ClassifySpec == ClassifyInit /\ [][ClassifyProbe]_vars

\* ---- conversion harness: a filled store, then conversion requests only ----
\* a text of 102 characters with a line break in it and quotes at 100 and 101
LongText ==
  [i \in 1..102 |-> IF i = 50 THEN "\n" ELSE IF i \in {100, 101} THEN "\"" ELSE "x"]

\* two sound images, an image that does not decode, a text file with a quote
\* in its name and quote, line break and backslash in its text, a document
\* whose text is not read, a PDF, a long text and a tall one
\* a text of 36 lines: one more than the first page of a document holds
TallText == [i \in 1..71 |-> IF i % 2 = 0 THEN "\n" ELSE "y"]

ConvertFiles ==
  <<aPng,
    RawFile(Chars("s.t.jpeg"), Mime("image", "jpeg"), 3000, TRUE, <<>>),
    bPng,
    RawFile(Chars("q\"r.txt"), Mime("text", "plain"), 5, TRUE, <<"h", "\"", "\n", "\\", "i">>),
    RawFile(Chars("e.rtf"), Mime("application", "rtf"), 700, TRUE, <<>>),
    RawFile(Chars("d.pdf"), Mime("application", "pdf"), 524288, TRUE, <<>>),
    RawFile(Chars("l.md"), Mime("", ""), 102, TRUE, LongText),
    RawFile(Chars("t.txt"), Mime("text", "plain"), 71, TRUE, TallText)>>

\* the item handleFiles makes of the k-th of these files
ConvertItem(k) ==
  LET file == ConvertFiles[k]
      id == ((k - 1) % NumIds) + 1
  IN IF IsTextRead(file) THEN ReadItem(file, id, TRUE) ELSE PlainItem(file, id, k - 1)

ConvertStores ==
  { s \in UNION { [1..n -> { ConvertItem(k) : k \in 1..Len(ConvertFiles) }] : n \in 1..MaxStore } :
      IsInjective(s) }

ConvertInit ==
  /\ files \in ConvertStores
  /\ sortOrder = "custom"
  /\ isGenerating = FALSE
  /\ currentPage = 0
  /\ shown = Rendered(files, FALSE, 0)
  /\ ingests = <<>>
  /\ runs = <<>>
  /\ ingested = Len(files)
  /\ nextUrl = Len(ConvertFiles)
  /\ revoked = {}
  /\ downloads = <<>>
  /\ consoleError = "none"
  /\ alertMessage = "none"
  /\ request = NoRequest
  /\ drags = <<>>
  /\ probe = RawFile(<<>>, Mime("", ""), 0, TRUE, <<>>)
  /\ verdict = "none"

\* every format the selector offers but the markup ones, and "docx"
ConvertFormats == {"pdf", "txt", "csv", "json", "zip", "png", "jpg", "docx"}

ConvertOptions ==
  { [OptionsFor(format) EXCEPT !.includeMetadata = includeMetadata] :
      format \in ConvertFormats, includeMetadata \in BOOLEAN }

\* no enhancement, one offset moved, and the two pixel passes switched on
ConvertSettings ==
  { NoEnhancement, [NoEnhancement EXCEPT !.brightness = 10],
    [NoEnhancement EXCEPT !.sharpness = 5, !.denoiseScanned = TRUE] }

\* Convert is clicked once in a behaviour
ConvertOnce(conversionOptions, includeCoverPage, enhancementSettings) ==
  /\ request = NoRequest
  /\ generateDocument(conversionOptions, includeCoverPage, enhancementSettings)

ConvertNext ==
  \/ \E conversionOptions \in ConvertOptions, includeCoverPage \in BOOLEAN,
          enhancementSettings \in ConvertSettings :
       ConvertOnce(conversionOptions, includeCoverPage, enhancementSettings)
  \/ RunStep
  \/ Render

ConvertSpec == ConvertInit /\ [][ConvertNext]_vars

\* ---- call harness: generateDocument called on a store of at most one item ----
CallStores == {<<>>} \cup { <<ConvertItem(k)>> : k \in 1..Len(ConvertFiles) }

CallInit ==
  /\ files \in CallStores
  /\ sortOrder = "custom"
  /\ isGenerating = FALSE
  /\ currentPage = 0
  /\ shown = Rendered(files, FALSE, 0)
  /\ ingests = <<>>
  /\ runs = <<>>
  /\ ingested = Len(files)
  /\ nextUrl = Len(ConvertFiles)
  /\ revoked = {}
  /\ downloads = <<>>
  /\ consoleError = "none"
  /\ alertMessage = "none"
  /\ request = NoRequest
  /\ drags = <<>>
  /\ probe = RawFile(<<>>, Mime("", ""), 0, TRUE, <<>>)
  /\ verdict = "none"

\* generateDocument is called once, whatever the button shows
DirectCall(conversionOptions, includeCoverPage, enhancementSettings) ==
  /\ verdict = "none"
  /\ generateDocumentCall(conversionOptions, includeCoverPage, enhancementSettings)
  /\ verdict' = "called"
  /\ UNCHANGED <<drags, probe>>

CallNext ==
  \/ \E conversionOptions \in ConvertOptions, includeCoverPage \in BOOLEAN,
          enhancementSettings \in ConvertSettings :
       DirectCall(conversionOptions, includeCoverPage, enhancementSettings)
  \/ RunStep
  \/ Render

CallSpec == CallInit /\ [][CallNext]_vars

\* ---- pagination harness: a store of more than one page ----
\* the k-th item of a store filled one file at a time, ids all different
PagedItem(k) ==
  IF k % 3 = 1 THEN PlainItem(aPng, k, k - 1)
  ELSE IF k % 3 = 2 THEN PlainItem(bPng, k, k - 1)
  ELSE ReadItem(cTxt, k, TRUE)

PageInit ==
  /\ sortOrder \in {"name", "custom"}
  /\ files = IF sortOrder = "name" THEN SortByName([k \in 1..PagedItems |-> PagedItem(k)])
             ELSE [k \in 1..PagedItems |-> PagedItem(k)]
  /\ isGenerating = FALSE
  /\ currentPage = 0
  /\ shown = Rendered(files, FALSE, 0)
  /\ ingests = <<>>
  /\ runs = <<>>
  /\ ingested = PagedItems
  /\ nextUrl = PagedItems
  /\ revoked = {}
  /\ downloads = <<>>
  /\ consoleError = "none"
  /\ alertMessage = "none"
  /\ request = NoRequest
  /\ drags = <<>>
  /\ probe = RawFile(<<>>, Mime("", ""), 0, TRUE, <<>>)
  /\ verdict = "none"

PageNext ==
  \/ goToNextPage
  \/ goToPreviousPage
  \/ \E id \in 1..PagedItems : removeFile(id)
  \/ \E value \in {"name", "custom"} : OrderSelect(value)

PageSpec == PageInit /\ [][PageNext]_vars

\* ---- pixel harness: one pixel, then the denoise pass on it ----
\* channel values around the two thresholds
ChannelSamples == {0, 49, 50, 51, 100, 199, 200, 201, 255}

ProbePixels ==
  { Pixel(r, g, b, a) : r \in 0..255, g \in ChannelSamples, b \in ChannelSamples,
                        a \in {0, 128, 255} }

PixelInit ==
  /\ probe \in ProbePixels
  /\ verdict = [filtered |-> FALSE, pixel |-> probe]
  /\ files = <<>>
  /\ sortOrder = "name"
  /\ isGenerating = FALSE
  /\ currentPage = 0
  /\ shown = Rendered(<<>>, FALSE, 0)
  /\ ingests = <<>>
  /\ runs = <<>>
  /\ ingested = 0
  /\ nextUrl = 0
  /\ revoked = {}
  /\ downloads = <<>>
  /\ consoleError = "none"
  /\ alertMessage = "none"
  /\ request = NoRequest
  /\ drags = <<>>

DenoiseProbe ==
  /\ ~verdict.filtered
  /\ verdict' = [filtered |-> TRUE, pixel |-> denoisePixel(probe)]
  /\ UNCHANGED <<files, sortOrder, currentPage, shown, ingests, ingested, urlVars, runVars,
                 drags, probe>>

PixelSpec == PixelInit /\ [][DenoiseProbe]_vars

\* ---- wrapping harness: one description, then the lines drawn for it ----
\* an empty word (two spaces in a row), words of one to three glyphs; the
\* last one is wider than the budget by itself
WrapWords == {<<>>, Chars("i"), Chars("m"), Chars("mm"), Chars("mmm")}

WrapDescriptions ==
  { Join(words, <<" ">>) : words \in UNION { [1..n -> WrapWords] : n \in 1..MaxWords } }

WrapInit ==
  /\ probe \in WrapDescriptions
  /\ verdict = [wrapped |-> FALSE, lines |-> <<>>]
  /\ files = <<>>
  /\ sortOrder = "name"
  /\ isGenerating = FALSE
  /\ currentPage = 0
  /\ shown = Rendered(<<>>, FALSE, 0)
  /\ ingests = <<>>
  /\ runs = <<>>
  /\ ingested = 0
  /\ nextUrl = 0
  /\ revoked = {}
  /\ downloads = <<>>
  /\ consoleError = "none"
  /\ alertMessage = "none"
  /\ request = NoRequest
  /\ drags = <<>>

WrapProbe ==
  /\ ~verdict.wrapped
  /\ verdict' = [wrapped |-> TRUE, lines |-> descriptionLines(probe)]
  /\ UNCHANGED <<files, sortOrder, currentPage, shown, ingests, ingested, urlVars, runVars,
                 drags, probe>>

WrapSpec == WrapInit /\ [][WrapProbe]_vars

\* ---- sharpening harness: one pixel and a sharpness, then the pass on it ----
\* channel values that bring about half-way cases and clamping
SharpenSamples == {0, 1, 17, 128, 255}

\* the sharpness slider: min="0" max="10"
SharpnessRange == 0..10

SharpenInit ==
  /\ probe \in [pixel : { Pixel(r, g, b, a) : r \in 0..255, g \in SharpenSamples,
                                              b \in SharpenSamples, a \in {0, 255} },
                 sharpness : SharpnessRange]
  /\ verdict = [filtered |-> FALSE, pixel |-> probe.pixel]
  /\ files = <<>>
  /\ sortOrder = "name"
  /\ isGenerating = FALSE
  /\ currentPage = 0
  /\ shown = Rendered(<<>>, FALSE, 0)
  /\ ingests = <<>>
  /\ runs = <<>>
  /\ ingested = 0
  /\ nextUrl = 0
  /\ revoked = {}
  /\ downloads = <<>>
  /\ consoleError = "none"
  /\ alertMessage = "none"
  /\ request = NoRequest
  /\ drags = <<>>

SharpenProbe ==
  /\ ~verdict.filtered
  /\ \E pixel \in sharpen(probe.pixel, probe.sharpness) :
       verdict' = [filtered |-> TRUE, pixel |-> pixel]
  /\ UNCHANGED <<files, sortOrder, currentPage, shown, ingests, ingested, urlVars, runVars,
                 drags, probe>>

SharpenSpec == SharpenInit /\ [][SharpenProbe]_vars

\* ---- properties ----

\* C1: single flight.  While a conversion run is in flight no second run is
\* started, and the artifacts delivered so far are only added to by the run
\* in flight: a request made meanwhile changes nothing.
C1_SingleFlight ==
  [][runs # <<>> =>
       /\ Len(runs') <= Len(runs)
       /\ Len(downloads') >= Len(downloads)
       /\ SubSeq(downloads', 1, Len(downloads)) = downloads]_vars

\* a run is waiting for its second image, the first artifact is delivered,
\* and the store is not empty: only isGenerating keeps the button disabled
C1_Witness ==
  /\ Len(runs) = 1
  /\ runs[1].pc = "imgload"
  /\ runs[1].k = 2
  /\ Len(downloads) = 1
  /\ isGenerating
  /\ shown.isGenerating
  /\ Len(shown.files) > 0

\* C2: every run that enters running leaves it again: isGenerating, once
\* true, becomes false again.
C2_RunSettles == isGenerating ~> ~isGenerating

\* C3: a run that ends in the catch of generateDocument has delivered no
\* artifact.
C3_FailedRunDeliversNothing ==
  consoleError = "Error generating document:" => downloads = <<>>

\* C4: a run works on the items the store held when it started, and no image
\* load of a run is made to fail by a store operation: a load that is going to
\* fail is the load of an image whose bytes do not decode.
C4_SnapshotIsolation ==
  \A i \in 1..Len(runs) :
    (runs[i].pc \in {"enhance", "pdfload", "imgload"} /\ ~runs[i].ok)
      => ~runs[i].items[runs[i].k].file.decodable

\* C5: whenever the ordering mode is "name" the stored sequence is sorted by
\* name.
C5_NameOrder == sortOrder = "name" => IsSortedByName(files)

\* C6: in custom order a step that adds items to the store appends them: the
\* items already stored keep their positions and the new ones follow in the
\* order of the batch.
C6_CustomAppends ==
  [][(sortOrder = "custom" /\ sortOrder' = "custom" /\ Len(files') > Len(files)) =>
       /\ SubSeq(files', 1, Len(files)) = files
       /\ LET added == [k \in 1..Len(files') - Len(files) |-> files'[Len(files) + k].file]
          IN \/ ingests' = ingests /\ added \in Batches
             \/ \E i \in 1..Len(ingests) :
                  ingests' = RemoveAt(ingests, i - 1) /\ added = ingests[i].validFiles]_vars

\* the same items, whatever their order
SameItems(s, t) ==
  /\ Len(s) = Len(t)
  /\ \A x \in {s[i] : i \in 1..Len(s)} :
       Cardinality({i \in 1..Len(s) : s[i] = x}) = Cardinality({i \in 1..Len(t) : t[i] = x})

LastDrag == drags[Len(drags)]

\* C7: a drag from index source to index destination leaves the same items,
\* puts the dragged item at index destination and keeps the order of all the
\* others; a drag without destination changes nothing.
C7_MoveIsSpliceReinsert ==
  (drags # <<>> /\ LastDrag.source < Len(LastDrag.before)) =>
    IF LastDrag.destination = NoDestination
      THEN files = LastDrag.before
      ELSE /\ SameItems(files, LastDrag.before)
           /\ files[LastDrag.destination + 1] = LastDrag.before[LastDrag.source + 1]
           /\ RemoveAt(files, LastDrag.destination) = RemoveAt(LastDrag.before, LastDrag.source)

\* an item was dragged two places or more: a move and an exchange differ
C7_Witness ==
  /\ drags # <<>>
  /\ LastDrag.destination # NoDestination
  /\ LastDrag.destination >= LastDrag.source + 2
  /\ files # LastDrag.before

\* the last two drags were move(i, j) and then move(j, i)
ThereAndBack ==
  /\ Len(drags) = 2
  /\ drags[1].destination # NoDestination
  /\ drags[2].source = drags[1].destination
  /\ drags[2].destination = drags[1].source

\* C8: move(i, j) followed at once by move(j, i) restores the sequence.
C8_MoveThereAndBack == ThereAndBack => files = drags[1].before

C8_Witness ==
  /\ ThereAndBack
  /\ drags[1].destination >= drags[1].source + 2
  /\ drags[2].before # drags[1].before
  /\ files = drags[1].before

\* the media types section 4.1 calls recognized text/document types
RecognizedDocumentTypes ==
  { "text/plain", "text/csv", "text/html", "text/markdown", "application/rtf",
    "application/msword",
    "application/vnd.openxmlformats-officedocument.wordprocessingml.document" }

\* the classification rule as stated
RuleClassification(file) ==
  IF file.type.top = "image" THEN "image"
  ELSE IF MimeString(file.type) = "application/pdf" THEN "pdf"
  ELSE IF \/ MimeString(file.type) \in RecognizedDocumentTypes
          \/ endsWith(toLowerCase(file.name), <<".", "t", "x", "t">>)
          \/ endsWith(toLowerCase(file.name), <<".", "m", "d">>)
          \/ endsWith(toLowerCase(file.name), <<".", "r", "t", "f">>)
    THEN "document"
  ELSE "rejected"

\* C9: ingestion classifies every (media type, name) pair by the rule: image/
\* prefix is an image, application/pdf a pdf, a recognized document type or a
\* .txt, .md or .rtf name a document, anything else is rejected.
C9_ClassificationRule == verdict # "none" => verdict = RuleClassification(probe)

\* C10: an item whose text could not be read carries the fallback preview and
\* has no content, rather than the empty string.
C10_FailedReadHasNoContent ==
  \A i \in 1..Len(files) : files[i].preview.kind = "unable" => files[i].content = Undefined

\* how many items of a store were made from a raw file
CountFile(s, file) == Cardinality({i \in 1..Len(s) : s[i].file = file})

\* how often a raw file occurs in a batch
CountRaw(batch, file) == Cardinality({i \in 1..Len(batch) : batch[i] = file})

\* the items are those of the batch, file by file and in its order
ItemsOf(items, batch) ==
  /\ Len(items) = Len(batch)
  /\ \A i \in 1..Len(batch) : items[i].file = batch[i]

\* C11: a text read that fails does not abort the batch.  A suspended
\* ingestion has an item for every accepted file it has passed, the failed
\* ones included; when it commits, the store gains one item for every accepted
\* file of the batch; and the item of a failed read is a document item.
C11_BatchNotAborted ==
  [][/\ \A i \in 1..Len(ingests') :
          ItemsOf(ingests'[i].fileItems,
                  SubSeq(ingests'[i].validFiles, 1, ingests'[i].k - 1))
     /\ \A i \in 1..Len(ingests) :
          ingests' = RemoveAt(ingests, i - 1) =>
            \A f \in RawFiles :
              CountFile(files', f) = CountFile(files, f) + CountRaw(ingests[i].validFiles, f)
     /\ \A i \in 1..Len(files') :
          files'[i].preview.kind = "unable" => files'[i].type = "document"]_vars

\* the first read of a batch has failed, its item is kept, and the ingestion
\* is waiting for the next file of the batch
C11_Witness ==
  \E i \in 1..Len(ingests) :
    /\ ingests[i].k = 2
    /\ Len(ingests[i].validFiles) = 2
    /\ ingests[i].fileItems[1].preview.kind = "unable"

\* the request of the behaviour asks for one of these formats
Requested(formats) ==
  request # NoRequest /\ request.conversionOptions.outputFormat \in formats

\* the run of the request has returned
Settled == runs = <<>> /\ ~isGenerating

\* C12 as stated: a request for a format outside pdf, txt, html, md, csv,
\* json, rtf, png, jpg delivers no artifact and ends as a logged failure with
\* the orchestrator idle.
C12_NoEncoderFormat ==
  (request # NoRequest
     /\ request.conversionOptions.outputFormat
           \notin {"pdf", "txt", "html", "md", "csv", "json", "rtf", "png", "jpg"})
    => /\ downloads = <<>>
       /\ consoleError = "Unsupported output format"
       /\ Settled

\* C12 amended: a request for a format outside pdf, txt, html, md, csv, json,
\* rtf, zip, png, jpg, such as "docx", starts no encoder, delivers no artifact
\* and ends as a logged failure with the orchestrator idle; "zip" has an arm
\* of its own, which delivers the placeholder file-list.txt.
C12_UnhandledFormat ==
  /\ (request # NoRequest
        /\ request.conversionOptions.outputFormat
              \notin {"pdf", "txt", "html", "md", "csv", "json", "rtf", "zip", "png", "jpg"})
       => /\ downloads = <<>>
          /\ consoleError = "Unsupported output format"
          /\ alertMessage = "none"
          /\ Settled
  /\ Requested({"zip"})
       => /\ Len(downloads) = 1
          /\ downloads[1].kind = "file-list"
          /\ downloads[1].ext = "txt"
          /\ consoleError = "none"
          /\ Settled

\* "docx" was requested on a store of two items
C12_Witness ==
  /\ Requested({"docx"})
  /\ Len(request.files) = 2
  /\ consoleError = "Unsupported output format"
  /\ downloads = <<>>

\* the request found no image among the files it was made with
NoImageRequested ==
  /\ Requested({"png", "jpg"})
  /\ request.files # <<>>
  /\ \A i \in 1..Len(request.files) : request.files[i].type # "image"

\* C13: PNG or JPG export of a store that holds items but no image shows
\* "No images found to convert", delivers nothing, logs no failure, and leaves
\* the orchestrator idle.
C13_NoImagesToConvert ==
  NoImageRequested
    => /\ alertMessage = "No images found to convert"
       /\ downloads = <<>>
       /\ consoleError = "none"
       /\ Settled

\* JPG was requested on a store of a text file and a PDF
C13_Witness ==
  /\ NoImageRequested
  /\ request.conversionOptions.outputFormat = "jpg"
  /\ Len(request.files) = 2
  /\ alertMessage = "No images found to convert"

\* the position of the last "." of a name, 0 if it has none
LastDot(name) ==
  IF \E i \in 1..Len(name) : name[i] = "."
    THEN CHOOSE i \in 1..Len(name) :
           name[i] = "." /\ \A j \in i + 1..Len(name) : name[j] # "."
    ELSE 0

\* a name without its extension: what precedes the last ".", when something
\* follows it
WithoutExtension(name) ==
  IF LastDot(name) = 0 \/ LastDot(name) = Len(name)
       \/ \E j \in LastDot(name) + 1..Len(name) : name[j] = "/"
    THEN name
    ELSE SubSeq(name, 1, LastDot(name) - 1)

TheArtifact == downloads[1]

\* the block the TXT export owes an item: header line, divider line, body
\* and the empty line that ends the block
OwedTxtBlock(item) ==
  Chars("Document: ") \o item.name \o <<"\n">>
    \o Chars("------------------------------") \o <<"\n">>
    \o (IF item.type = "document" THEN item.content.s
        ELSE IF item.type = "image" THEN Chars("[Image file: ") \o item.name \o <<"]">>
        ELSE Chars("[PDF file: ") \o item.name \o <<"]">>)
    \o <<"\n", "\n">>

\* C15: TXT export without cover page is, for the items of the snapshot in
\* snapshot order, the sequence of their blocks: "Document: <name>", a
\* divider line, and the body (the text of a document, "[Image file: <name>]",
\* "[PDF file: <name>]"); no item is left without its body.
C15_TxtBlocks ==
  (Requested({"txt"}) /\ ~request.includeCoverPage) =>
    /\ Len(downloads) = 1
    /\ TheArtifact.content
         = Concat([i \in 1..Len(request.files) |-> OwedTxtBlock(request.files[i])])

\* ---- reading CSV back (RFC 4180) ----
\* a position is outside quotes when an even number of quotes precedes it
OutsideQuotes(s, i) == Cardinality({j \in 1..i - 1 : s[j] = "\""}) % 2 = 0

\* the k-th smallest element of a set of numbers
Nth(S, k) == CHOOSE e \in S : Cardinality({x \in S : x < e}) = k - 1

\* the pieces of s between the separators that stand outside quotes
SplitOutside(s, separator) ==
  LET cuts == {i \in 1..Len(s) : s[i] = separator /\ OutsideQuotes(s, i)}
      n == Cardinality(cuts)
      from(k) == IF k = 1 THEN 1 ELSE Nth(cuts, k - 1) + 1
      to(k) == IF k = n + 1 THEN Len(s) ELSE Nth(cuts, k) - 1
  IN [k \in 1..n + 1 |-> SubSeq(s, from(k), to(k))]

\* how many quotes of a field precede position p, the opening one left out
QuoteRank(field, p) == Cardinality({j \in 2..p - 1 : field[j] = "\""})

\* a quoted field: it opens and closes with a quote, and the quotes between
\* come in pairs
QuotedField(field) ==
  /\ Len(field) >= 2
  /\ field[1] = "\"" /\ field[Len(field)] = "\""
  /\ \A p \in 2..Len(field) - 1 :
       field[p] = "\"" =>
         IF QuoteRank(field, p) % 2 = 0 THEN p + 1 < Len(field) /\ field[p + 1] = "\""
         ELSE field[p - 1] = "\""

\* the value of a quoted field: without the outer quotes, pairs read as one
Unquoted(field) ==
  LET kept == SelectSeq([p \in 1..Len(field) |-> p],
                        LAMBDA p : /\ 1 < p /\ p < Len(field)
                                   /\ ~(field[p] = "\"" /\ QuoteRank(field, p) % 2 = 1))
  IN [k \in 1..Len(kept) |-> field[kept[k]]]

\* C16: every data row of the CSV export reads back as exactly four quoted
\* fields with every embedded quote doubled, the first giving back the file
\* name and the second the type.
C16_CsvRowsParseBack ==
  Requested({"csv"}) =>
    /\ Len(downloads) = 1
    /\ LET rows == SplitOutside(TheArtifact.content, "\n")
       IN /\ Len(rows) = Len(request.files) + 2
          /\ rows[Len(rows)] = <<>>
          /\ \A i \in 1..Len(request.files) :
               LET fields == SplitOutside(rows[i + 1], ",")
               IN /\ Len(fields) = 4
                  /\ \A k \in 1..4 : QuotedField(fields[k])
                  /\ Unquoted(fields[1]) = request.files[i].name
                  /\ Unquoted(fields[2]) = Chars(request.files[i].type)

\* the preview the CSV export owes an item, written between the quotes of
\* the fourth field
OwedCsvPreview(item) ==
  IF item.type = "document" /\ item.content.s # <<>>
    THEN LET text == item.content.s
             cut == SubSeq(text, 1, IF Len(text) > 100 THEN 100 ELSE Len(text))
         IN Concat([i \in 1..Len(cut) |->
                      IF cut[i] = "\"" THEN <<"\"", "\"">>
                      ELSE IF cut[i] = "\n" THEN <<" ">>
                      ELSE <<cut[i]>>])
    ELSE Chars(item.type) \o Chars(" file")

\* C17: in the CSV export the fourth field of a document item with text is
\* made of the first 100 characters of the text (cut first, then quotes
\* doubled and line breaks turned into spaces); an item without text gets
\* "<type> file".
C17_CsvPreview ==
  Requested({"csv"}) =>
    /\ Len(downloads) = 1
    /\ TheArtifact.content
         = CsvHeader
             \o Concat([i \in 1..Len(request.files) |->
                          CsvRowHead(request.files[i]) \o <<"\"">>
                            \o OwedCsvPreview(request.files[i]) \o <<"\"", "\n">>])

\* CSV was exported from the long text, whose 100th character is a quote,
\* and from an image
C17_Witness ==
  /\ Requested({"csv"})
  /\ Len(downloads) = 1
  /\ Len(request.files) = 2
  /\ request.files[1].content.s = LongText
  /\ request.files[2].type = "image"

\* ---- reading JSON back (JSON.parse) ----
Malformed == [t |-> "malformed", v |-> 0]

JsonWhitespace == {" ", "\n", "\t", "\r"}

\* a text without the white space around it
Trim(s) ==
  IF \A i \in 1..Len(s) : s[i] \in JsonWhitespace THEN <<>>
  ELSE LET first == CHOOSE i \in 1..Len(s) :
                      s[i] \notin JsonWhitespace /\ \A j \in 1..i - 1 : s[j] \in JsonWhitespace
           last == CHOOSE i \in 1..Len(s) :
                     s[i] \notin JsonWhitespace /\ \A j \in i + 1..Len(s) : s[j] \in JsonWhitespace
       IN SubSeq(s, first, last)

\* how many backslashes stand right before position i
BackslashRun(s, i) ==
  CHOOSE k \in 0..i - 1 :
    /\ \A j \in 1..k : s[i - j] = "\\"
    /\ k = i - 1 \/ s[i - k - 1] # "\\"

\* the quotes that open or close a string: those not escaped
StringDelimiters(s) == {i \in 1..Len(s) : s[i] = "\"" /\ BackslashRun(s, i) % 2 = 0}

\* the pieces of s between the separators that stand outside strings and
\* outside nested arrays and objects
SplitTop(s, separator) ==
  LET delimiters == StringDelimiters(s)
      inString(i) == Cardinality({d \in delimiters : d < i}) % 2 = 1
      opens == {i \in 1..Len(s) : s[i] \in {"{", "["} /\ ~inString(i)}
      closes == {i \in 1..Len(s) : s[i] \in {"}", "]"} /\ ~inString(i)}
      depth(i) == Cardinality({j \in opens : j < i}) - Cardinality({j \in closes : j < i})
      cuts == {i \in 1..Len(s) : s[i] = separator /\ ~inString(i) /\ depth(i) = 0}
      n == Cardinality(cuts)
      from(k) == IF k = 1 THEN 1 ELSE Nth(cuts, k - 1) + 1
      to(k) == IF k = n + 1 THEN Len(s) ELSE Nth(cuts, k) - 1
  IN [k \in 1..n + 1 |-> SubSeq(s, from(k), to(k))]

\* the character an escape sequence stands for
Unescaped(c) ==
  IF c = "n" THEN "\n" ELSE IF c = "r" THEN "\r" ELSE IF c = "t" THEN "\t" ELSE c

\* the string between two delimiters, escape sequences read back
UnescapeJson(s) ==
  LET introduces(p) == s[p] = "\\" /\ BackslashRun(s, p) % 2 = 0
      kept == SelectSeq([p \in 1..Len(s) |-> p], LAMBDA p : ~introduces(p))
  IN [k \in 1..Len(kept) |->
        IF kept[k] > 1 /\ introduces(kept[k] - 1) THEN Unescaped(s[kept[k]]) ELSE s[kept[k]]]

IsDigits(s) == s # <<>> /\ \A i \in 1..Len(s) : \E d \in 0..9 : s[i] = DigitChar(d)

RECURSIVE NumberValue(_)
NumberValue(s) ==
  IF s = <<>> THEN 0
  ELSE 10 * NumberValue(SubSeq(s, 1, Len(s) - 1))
         + (CHOOSE d \in 0..9 : s[Len(s)] = DigitChar(d))

\* JSON.parse
RECURSIVE parse(_)
parse(text) ==
  LET s == Trim(text)
      inner == Trim(SubSeq(s, 2, Len(s) - 1))
  IN IF s = <<>> THEN Malformed
     ELSE IF s = Chars("null") THEN JNull
     ELSE IF s = Chars("true") THEN JBool(TRUE)
     ELSE IF s = Chars("false") THEN JBool(FALSE)
     ELSE IF IsDigits(s) THEN JNum(NumberValue(s))
     ELSE IF s[1] = "\""
       THEN IF Len(s) >= 2 /\ StringDelimiters(s) = {1, Len(s)}
              THEN JStr(UnescapeJson(SubSeq(s, 2, Len(s) - 1)))
              ELSE Malformed
     ELSE IF s[1] = "[" /\ s[Len(s)] = "]"
       THEN IF inner = <<>> THEN JArr(<<>>)
            ELSE LET parts == SplitTop(inner, ",")
                 IN JArr([k \in 1..Len(parts) |-> parse(parts[k])])
     ELSE IF s[1] = "{" /\ s[Len(s)] = "}"
       THEN IF inner = <<>> THEN JObj(<<>>)
            ELSE LET parts == SplitTop(inner, ",")
                     sides(k) == SplitTop(parts[k], ":")
                 IN IF \E k \in 1..Len(parts) :
                         Len(sides(k)) # 2 \/ parse(sides(k)[1]).t # "str"
                      THEN Malformed
                      ELSE JObj([k \in 1..Len(parts) |->
                                   [key |-> parse(sides(k)[1]).v, value |-> parse(sides(k)[2])]])
     ELSE Malformed

\* the value of the member of an object that has the key
Get(object, key) ==
  IF object.t = "obj" /\ \E k \in 1..Len(object.v) : object.v[k].key = Chars(key)
    THEN object.v[CHOOSE k \in 1..Len(object.v) : object.v[k].key = Chars(key)].value
    ELSE Malformed

\* C18: JSON export round-trips the snapshot.  Decoding the artifact gives an
\* object whose files array has the length of the snapshot and, position by
\* position, its names and categories; metadata is null exactly when
\* includeMetadata is off, coverPage exactly when no cover page is included.
C18_JsonRoundTrip ==
  Requested({"json"}) =>
    /\ Len(downloads) = 1
    /\ LET decoded == parse(TheArtifact.content)
           decodedFiles == Get(decoded, "files")
       IN /\ decodedFiles.t = "arr"
          /\ Len(decodedFiles.v) = Len(request.files)
          /\ \A i \in 1..Len(request.files) :
               /\ Get(decodedFiles.v[i], "name") = JStr(request.files[i].name)
               /\ Get(decodedFiles.v[i], "type") = JStr(Chars(request.files[i].type))
          /\ Get(decoded, "metadata").t \in {"null", "obj"}
          /\ Get(decoded, "metadata").t = "null" <=> ~request.conversionOptions.includeMetadata
          /\ Get(decoded, "coverPage").t \in {"null", "obj"}
          /\ Get(decoded, "coverPage").t = "null" <=> ~request.includeCoverPage

\* JSON was exported, with metadata and without cover, from an image and the
\* text file whose name holds a quote
C18_Witness ==
  /\ Requested({"json"})
  /\ Len(downloads) = 1
  /\ request.conversionOptions.includeMetadata
  /\ ~request.includeCoverPage
  /\ Len(request.files) = 2
  /\ request.files[1].type = "image"
  /\ \E p \in 1..Len(request.files[2].name) : request.files[2].name[p] = "\""

\* three times the mean of the colour channels of a pixel
ChannelSum(px) == px.r + px.g + px.b

\* C19: the denoise thresholds are exact.  A pixel whose mean of R, G, B is
\* below 50 becomes black, one whose mean is above 200 becomes white, any
\* other, means of exactly 50 and exactly 200 included, is unchanged; alpha is
\* never changed.
C19_DenoiseThresholds ==
  verdict.filtered =>
    /\ verdict.pixel.a = probe.a
    /\ IF ChannelSum(probe) < 150
         THEN verdict.pixel.r = 0 /\ verdict.pixel.g = 0 /\ verdict.pixel.b = 0
       ELSE IF ChannelSum(probe) > 600
         THEN verdict.pixel.r = 255 /\ verdict.pixel.g = 255 /\ verdict.pixel.b = 255
       ELSE verdict.pixel = probe

\* a half-transparent pixel of mean exactly 50 and uneven channels went
\* through the pass and is unchanged
C19_Witness ==
  /\ verdict.filtered
  /\ probe = Pixel(51, 49, 50, 128)
  /\ verdict.pixel = probe

\* the request was made with every offset at 0 and every toggle off
IdentityRequested ==
  /\ request # NoRequest
  /\ request.enhancementSettings.brightness = 0
  /\ request.enhancementSettings.contrast = 0
  /\ request.enhancementSettings.sharpness = 0
  /\ ~request.enhancementSettings.autoEnhance
  /\ ~request.enhancementSettings.denoiseScanned

\* the pixels of an item's image as they come from its object URL, encoded
\* once as JPEG at the quality of the request
PlainReencode(item) ==
  [url |-> item.preview.url,
   ops |-> <<[op |-> "jpeg", a |-> request.conversionOptions.imageQuality, b |-> 100]>>]

\* the images drawn on pages are the unenhanced images of the request
PlainImagePages(pages) ==
  \A p \in 1..Len(pages) : \A b \in 1..Len(pages[p]) :
    pages[p][b].kind = "image" =>
      \E i \in 1..Len(request.files) :
        /\ request.files[i].type = "image"
        /\ request.files[i].name = pages[p][b].name
        /\ pages[p][b].body = PlainReencode(request.files[i])

\* C20: with all toggles off and all offsets at 0 the enhancement is the
\* identity.  The run never enters enhanceImage, the image it loads is the
\* one behind the item's object URL, and every image page of the PDF holds
\* the unenhanced image encoded once at the quality of the request.
C20_IdentityEnhancement ==
  IdentityRequested =>
    /\ \A i \in 1..Len(runs) :
         /\ runs[i].pc # "enhance"
         /\ runs[i].image.ops = <<>>
         /\ PlainImagePages(runs[i].pages)
    /\ \A d \in 1..Len(downloads) :
         downloads[d].ext = "pdf" =>
           /\ PlainImagePages(downloads[d].content)
           /\ \A i \in 1..Len(request.files) :
                request.files[i].type = "image" =>
                  \E p \in 1..Len(downloads[d].content) :
                    \E b \in 1..Len(downloads[d].content[p]) :
                      /\ downloads[d].content[p][b].kind = "image"
                      /\ downloads[d].content[p][b].name = request.files[i].name

\* a PDF with a cover page and two image pages was delivered for a request
\* without enhancement
C20_Witness ==
  /\ IdentityRequested
  /\ Requested({"pdf"})
  /\ request.includeCoverPage
  /\ Len(downloads) = 1
  /\ Len(TheArtifact.content) = 3
  /\ \A p \in {2, 3} :
       Len(TheArtifact.content[p]) = 1 /\ TheArtifact.content[p][1].kind = "image"

\* C28: the pagination index stays valid.  currentPage is 0 when the store is
\* empty, and otherwise 0 <= currentPage < ceil(files.length / 4), so that
\* the page shown for a store that holds items holds at least one of them.
C28_PageIndexValid ==
  /\ currentPage >= 0
  /\ files = <<>> => currentPage = 0
  /\ files # <<>> => currentPage * 4 < Len(files)

\* C22: item ids are unique.  No two items held in the store at the same
\* time have the same id.
C22_UniqueIds ==
  \A i, j \in 1..Len(files) : files[i].id = files[j].id => i = j

\* the object URLs of the image items in the store
StoreUrls == { files[i].preview.url : i \in { j \in 1..Len(files) : files[j].type = "image" } }

\* the object URLs of image items that handleFiles has made and not yet
\* committed to the store
PendingUrls ==
  UNION { { ingests[n].fileItems[i].preview.url :
              i \in { j \in 1..Len(ingests[n].fileItems) :
                        ingests[n].fileItems[j].type = "image" } } :
          n \in 1..Len(ingests) }

\* C25: preview handles are released on removal.  No object URL of an item
\* in the store has been revoked, and every object URL that was created and
\* belongs to no item of the store (nor to an item still being ingested) has
\* been revoked.
C25_HandlesReleased ==
  /\ StoreUrls \cap revoked = {}
  /\ (1..nextUrl) \ (StoreUrls \cup PendingUrls) \subseteq revoked

\* C29: no store operation loses or duplicates an item.  Every step that
\* changes the store either keeps the same items (a move, a sort), or adds
\* items to the ones it held (an ingestion), or takes out the items with the
\* id of a rendered item (a removal).
C29_NoItemLost ==
  [][files' # files =>
       \/ SameItems(files, files')
       \/ /\ Len(files') > Len(files)
          /\ \A x \in {files[i] : i \in 1..Len(files)} :
               Cardinality({i \in 1..Len(files') : files'[i] = x})
                 >= Cardinality({i \in 1..Len(files) : files[i] = x})
       \/ \E n \in 1..Len(shown.files) :
            files' = SelectSeq(files, LAMBDA item : item.id # shown.files[n].id)]_vars

\* the image went through the enhancer with the settings of the request
EnhancedImage(image) ==
  /\ Len(image.ops) >= 2
  /\ image.ops[1] = [op |-> "brightness-contrast",
                      a |-> 100 + request.enhancementSettings.brightness,
                      b |-> 100 + request.enhancementSettings.contrast]

\* every image drawn on pages went through the enhancer
EnhancedImagePages(pages) ==
  \A p \in 1..Len(pages) : \A b \in 1..Len(pages[p]) :
    pages[p][b].kind = "image" => EnhancedImage(pages[p][b].body)

\* C21: the enhancement settings of a run apply to every image of the run.
\* With any option active, every image that is encoded into an output, the
\* image of a PDF page as well as the image of a PNG or JPG export, went
\* through the enhancer with the settings of the request.
C21_EnhancementUniform ==
  (request # NoRequest /\ ~IdentityRequested) =>
    \A d \in 1..Len(downloads) :
      /\ downloads[d].ext = "pdf" => EnhancedImagePages(downloads[d].content)
      /\ downloads[d].ext \in {"png", "jpg"} => EnhancedImage(downloads[d].content)

\* the position in the snapshot of the item called name
SnapshotIndex(name) == CHOOSE i \in 1..Len(request.files) : request.files[i].name = name

\* what is drawn on pages, cover aside, comes in the order of the snapshot
InSnapshotOrder(pages) ==
  \A p, q \in 1..Len(pages) : \A b \in 1..Len(pages[p]) : \A c \in 1..Len(pages[q]) :
    (pages[p][b].kind # "cover" /\ pages[q][c].kind # "cover" /\ (p < q \/ (p = q /\ b < c)))
      => SnapshotIndex(pages[p][b].name) <= SnapshotIndex(pages[q][c].name)

\* the number of blocks of a kind that the item called name has on pages
BlocksOf(pages, name, kind) ==
  Cardinality({ pb \in UNION { { <<p, b>> : b \in 1..Len(pages[p]) } : p \in 1..Len(pages) } :
                  /\ pages[pb[1]][pb[2]].name = name
                  /\ pages[pb[1]][pb[2]].kind = kind })

\* the first n items of the snapshot are fully placed on pages, and nothing
\* of a later item is
PlacedUpTo(pages, n) ==
  /\ \A p \in 1..Len(pages) : \A b \in 1..Len(pages[p]) :
       pages[p][b].kind # "cover" =>
         /\ \E i \in 1..Len(request.files) : request.files[i].name = pages[p][b].name
         /\ SnapshotIndex(pages[p][b].name) <= n
  /\ \A i \in 1..n :
       LET item == request.files[i]
       IN /\ item.type = "image" => BlocksOf(pages, item.name, "image") = 1
          /\ item.type = "pdf" => BlocksOf(pages, item.name, "pdf") = 1
          /\ (item.type = "document" /\ item.content.s # <<>>) =>
               /\ BlocksOf(pages, item.name, "heading") = 1
               /\ BlocksOf(pages, item.name, "line")
                    = 1 + Cardinality({ j \in 1..Len(item.content.s) :
                                          item.content.s[j] = "\n" })

\* C23: the per-item output of a PDF run is placed in snapshot order.  At
\* most one per-item step is pending; while the step of item k is pending,
\* every item before k is fully placed and nothing of k or of a later item
\* is; the delivered document holds every item, in the order of the snapshot.
C23_SnapshotOrder ==
  Requested({"pdf"}) =>
    /\ Len(runs) <= 1
    /\ \A r \in 1..Len(runs) :
         /\ runs[r].pc \in {"enhance", "pdfload"}
         /\ runs[r].k \in 1..Len(request.files)
         /\ request.files[runs[r].k].type = "image"
         /\ InSnapshotOrder(runs[r].pages)
         /\ PlacedUpTo(runs[r].pages, runs[r].k - 1)
    /\ \A d \in 1..Len(downloads) :
         /\ InSnapshotOrder(downloads[d].content)
         /\ PlacedUpTo(downloads[d].content, Len(request.files))

\* the second image of a snapshot is being loaded, the first one is drawn
C23_Witness ==
  /\ Requested({"pdf"})
  /\ Len(runs) = 1
  /\ runs[1].pc = "pdfload"
  /\ runs[1].k = 2
  /\ request.files[1].type = "image"
  /\ BlocksOf(runs[1].pages, request.files[1].name, "image") = 1

\* the names of what is drawn on a page
PageOwners(page) == { IF page[b].kind = "cover" THEN <<"cover">> ELSE <<"item", page[b].name>> :
                      b \in 1..Len(page) }

\* C24: the page structure of the PDF.  The cover, if included, is alone on
\* page 1; without a cover the first item starts on page 1; no page holds
\* what two items drew; the document does not begin with a blank page.
C24_PageStructure ==
  Requested({"pdf"}) =>
    \A d \in 1..Len(downloads) :
      LET pages == downloads[d].content
      IN /\ Len(pages) >= 1
         /\ pages[1] # <<>>
         /\ request.includeCoverPage => PageOwners(pages[1]) = {<<"cover">>}
         /\ ~request.includeCoverPage
              => PageOwners(pages[1]) = {<<"item", request.files[1].name>>}
         /\ \A p \in 1..Len(pages) : Cardinality(PageOwners(pages[p])) <= 1

\* C30: a conversion request on an empty store is a no-op.  After a call of
\* generateDocument on an empty store, for whatever format, the orchestrator
\* is idle, no run was started, nothing was delivered, logged or shown.
C30_EmptyStoreNoOp ==
  (verdict = "called" /\ files = <<>>) =>
    /\ ~isGenerating
    /\ ~shown.isGenerating
    /\ runs = <<>>
    /\ downloads = <<>>
    /\ consoleError = "none"
    /\ alertMessage = "none"

\* generateDocument was called on an empty store
C30_Witness == verdict = "called" /\ files = <<>> /\ shown.files = <<>>

\* thirty times the value the sharpening owes a channel: the channel plus
\* (R + G + B) / 3 * s / 10, clamped to [0, 255]
OwedSharpened30(px, s, channel) ==
  IF 30 * channel + (px.r + px.g + px.b) * s > 30 * 255 THEN 30 * 255
  ELSE 30 * channel + (px.r + px.g + px.b) * s

\* C26: sharpening with s in 1..10 adds (R + G + B) / 3 * s / 10 to each of
\* R, G and B and clamps the result to [0, 255].  Every channel holds the
\* integer nearest to that value, stays in 0..255 and does not decrease;
\* alpha is unchanged; with s = 0 the pixel is unchanged.
C26_SharpenAddsScaledAverage ==
  verdict.filtered =>
    LET px == probe.pixel
        s == probe.sharpness
        out == verdict.pixel
        Near(new, old) ==
          /\ new \in 0..255
          /\ new >= old
          /\ 30 * new - OwedSharpened30(px, s, old) \in -15..15
    IN /\ out.a = px.a
       /\ s = 0 => out = px
       /\ s \in 1..10 => Near(out.r, px.r) /\ Near(out.g, px.g) /\ Near(out.b, px.b)

\* a pixel of which one channel is raised and two are clamped
C26_Witness ==
  /\ verdict.filtered
  /\ probe = [pixel |-> [r |-> 10, g |-> 255, b |-> 255, a |-> 255], sharpness |-> 5]
  /\ verdict.pixel = [r |-> 97, g |-> 255, b |-> 255, a |-> 255]

\* the first word of a drawn line: what comes before its first space
FirstWord(line) ==
  SubSeq(line, 1, (CHOOSE i \in 1..Len(line) :
                     line[i] = " " /\ \A j \in 1..i - 1 : line[j] # " ") - 1)

\* the words on a drawn line: each word is followed by one space
WordsOn(line) == Cardinality({ i \in 1..Len(line) : line[i] = " " })

\* C27: the description is wrapped greedily over a budget of 400.  The drawn
\* lines, put end to end, are the words of the description in their order,
\* each followed by a space; a line ends exactly where the next word would
\* have made the measured line exceed 400; a line of more than one word
\* does not exceed 400.
C27_GreedyWrap ==
  (verdict.wrapped /\ probe # <<>>) =>
    LET lines == verdict.lines
    IN /\ lines # <<>>
       /\ \A j \in 1..Len(lines) : lines[j] # <<>> /\ lines[j][Len(lines[j])] = " "
       /\ Concat(lines) = probe \o <<" ">>
       /\ \A j \in 1..Len(lines) - 1 :
            measureText(lines[j] \o FirstWord(lines[j + 1]) \o <<" ">>) > 400
       /\ \A j \in 1..Len(lines) : measureText(lines[j]) <= 400 \/ WordsOn(lines[j]) = 1

\* two words fill the line to 400 exactly and the third goes to a new line
C27_Witness ==
  /\ verdict.wrapped
  /\ probe = <<"m", " ", "m", " ", "i">>
  /\ verdict.lines = << <<"m", " ", "m", " ">>, <<"i", " ">> >>

====
